---- MODULE Spec2Model ----
(***************************************************************************)
(* A model of the pyfluss client: the FlussConnection lifecycle            *)
(* (connect / close / operations guarded by _ensure_connected), the retry  *)
(* wrapper around deferred remote calls, and the table path parsing of     *)
(* create_writer / create_reader.                                          *)
(*                                                                         *)
(* The Java gateway process, the py4j bridge and the remote engine are     *)
(* external: every call into them either succeeds or raises, and the       *)
(* model draws that outcome nondeterministically.                          *)
(***************************************************************************)
EXTENDS Integers, Sequences, FiniteSets, TLC

\* ------------------------------------------------------------------ bounds
\* FlussConnection objects the caller holds.
NumConns == 2
\* Gateway processes that can be launched in one run.
MaxProcs == 2

Conns == 1..NumConns
Pids == 1..MaxProcs
None == "None"
\* The value of a process handle that holds no process (None in the source).
NoPid == 0
\* The value of _global_connection when there is none (None in the source).
NoConn == 0

\* ------------------------------------------------------------------- state
VARIABLES
    _gateway,          \* per connection: the py4j JavaGateway client, or None
    _java_process,     \* per connection: the Popen handle (a pid), or NoPid
    _java_app,         \* per connection: gateway.entry_point, or None
    _java_connection,  \* per connection: the cached Java Connection, or None
    _is_connected,     \* per connection: the connected flag
    running,           \* the gateway processes alive in the OS
    launched,          \* how many gateway processes were launched so far
    closed,            \* the connections a close() took from connected to not connected
    last,              \* the most recent call and what it did (observation)
    retry_pc,          \* _handle_async_operation_with_retry: idle, loop, returned, raised
    max_retries,       \* its argument
    attempt,           \* its loop variable
    last_exception,    \* its local
    invoked,           \* how often it called operation_func (observation)
    slept,             \* the time.sleep durations it waited, in order (observation)
    history,           \* the failed attempts: what happened and what was caught
    outcome,           \* the value it returned or the exception it raised
    dicts,             \* the Python dict objects of descriptors and builders, by identity
    descriptors,       \* the DatabaseDescriptor objects made so far
    builder,           \* the DatabaseDescriptorBuilder in use
    held,              \* the dicts the caller passed to a constructor and still holds
    _global_connection,\* module level: the connection pyfluss.connect() made last, or NoConn
    constructed,       \* how many connections pyfluss.connect() has constructed
    _gateway_module,   \* java_gateway._gateway: the shared bridge client, or None
    _gateway_proc,     \* java_gateway._gateway_proc: the process get_gateway() launched, or NoPid
    servers,           \* the processes launched by get_gateway() that are alive
    gateway_pc,        \* where get_gateway() is: "idle", or "sleeping" after the launch
    atexit,            \* the callbacks registered with atexit, in order of registration
    handlers,          \* whether _signal_handler is installed for SIGTERM and SIGINT
    python,            \* the Python process: "up", "exiting" (running atexit callbacks), "gone"
    catalog,           \* the Catalog made last by Catalog.create, with its options
    store,             \* the remote engine: its databases, tables and rows
    handle             \* per writer, reader or admin object: its fields

connVars == <<_gateway, _java_process, _java_app, _java_connection, _is_connected>>
retryVars == <<retry_pc, max_retries, attempt, last_exception, invoked, slept,
               history, outcome>>
metaVars == <<dicts, descriptors, builder, held>>
sessVars == <<_global_connection, constructed>>
gwVars == <<_gateway_module, _gateway_proc, servers, gateway_pc, handlers, catalog>>
exitVars == <<atexit, python>>
dataVars == <<store, handle>>
otherVars == <<metaVars, sessVars, gwVars, exitVars, dataVars>>
vars == <<_gateway, _java_process, _java_app, _java_connection, _is_connected,
          running, launched, closed, last, retry_pc, max_retries, attempt, last_exception,
          invoked, slept, history, outcome, dicts, descriptors, builder, held,
          _global_connection, constructed, _gateway_module, _gateway_proc,
          servers, gateway_pc, atexit, handlers, python, catalog, store, handle>>

\* The fields of connection c as one record.
Fields(c) ==
    [gateway |-> _gateway[c], java_process |-> _java_process[c],
     java_app |-> _java_app[c], java_connection |-> _java_connection[c],
     is_connected |-> _is_connected[c]]

\* FlussConnection.__init__
NewFields ==
    [gateway |-> None, java_process |-> NoPid, java_app |-> None,
     java_connection |-> None, is_connected |-> FALSE]

SetFields(c, f) ==
    /\ _gateway' = [_gateway EXCEPT ![c] = f.gateway]
    /\ _java_process' = [_java_process EXCEPT ![c] = f.java_process]
    /\ _java_app' = [_java_app EXCEPT ![c] = f.java_app]
    /\ _java_connection' = [_java_connection EXCEPT ![c] = f.java_connection]
    /\ _is_connected' = [_is_connected EXCEPT ![c] = f.is_connected]

\* FlussConnection.is_connected, on a record of fields and on a connection.
FieldsConnected(f) == f.is_connected /\ f.gateway # None
is_connected(c) == FieldsConnected(Fields(c))

\* A remote call issued through the bridge, by the name of the Java method.
R(name) == <<name>>

\* What a call reports: the operation, the object, whether the object was
\* connected when it was called, its argument, how it ended, the remote calls
\* it issued through the bridge (in order), the process it launched (or
\* NoPid) and the processes it sent a termination signal to.  The argument
\* of connect is how far it got, that of close the teardown steps that raised.
Call(op, c, arg, result, remote, started, signalled) ==
    [op |-> op, obj |-> c, before |-> c \in Conns /\ is_connected(c),
     arg |-> arg, result |-> result, remote |-> remote,
     started |-> started, signalled |-> signalled]

\* ------------------------------------------------------------------- close
\* The outcomes of the teardown steps of one close(): whether
\* _java_connection.close(), _gateway.shutdown() and _java_process.wait(5)
\* return (TRUE) or raise (FALSE).
TeardownOutcomes == [jclose : BOOLEAN, shutdown : BOOLEAN, wait : BOOLEAN]

\* The outcomes that can differ for fields f: a step that is not run, or that
\* cannot fail (waiting for a process that is gone), has the outcome TRUE.
TeardownChoices(f, alive) ==
    {o \in TeardownOutcomes :
        /\ (f.java_connection = None \/ ~f.is_connected => o.jclose)
        /\ (f.gateway = None \/ ~f.is_connected => o.shutdown)
        /\ (f.java_process \notin alive \/ ~f.is_connected => o.wait)}

\* Whether "pkill -f SimplePy4JGatewayServer" ends the processes it finds:
\* it may be missing or fail, which the source ignores.
PkillOutcomes(alive) == IF alive = {} THEN {FALSE} ELSE BOOLEAN

\* The guard at the top of close(): nothing is done unless the flag is set.
CloseSkips(f) == ~f.is_connected

\* FlussConnection.close on fields f, with the processes alive and the
\* outcomes o of the teardown steps.  Returns the fields afterwards, the
\* remote calls issued, the processes signalled, the processes that exited
\* and the teardown steps that raised.
\* close() itself never raises: the inner bare except swallows a failing
\* _java_connection.close(), the outer except logs everything else.
CloseFields(f, alive, o) ==
    IF CloseSkips(f)
    THEN [fields |-> f, remote |-> <<>>, signalled |-> {}, exited |-> {}, raised |-> {}]
    ELSE
      LET remote == IF f.java_connection # None THEN <<R("Connection.close")>> ELSE <<>>
          r1 == IF f.java_connection # None /\ ~o.jclose
                THEN {"_java_connection.close"} ELSE {}
          f1 == [f EXCEPT !.java_connection = None]
      IN IF f1.gateway # None /\ ~o.shutdown
         THEN \* shutdown() raised: the outer except ends the cleanup here
              [fields |-> f1, remote |-> remote, signalled |-> {}, exited |-> {},
               raised |-> r1 \cup {"_gateway.shutdown"}]
         ELSE
           LET f2 == [f1 EXCEPT !.gateway = None]
               pid == f2.java_process
               done == [f2 EXCEPT !.java_process = NoPid, !.java_app = None,
                                  !.is_connected = FALSE]
           IN IF pid = NoPid
              THEN [fields |-> done, remote |-> remote, signalled |-> {}, exited |-> {},
                    raised |-> r1]
              ELSE IF pid \in alive /\ ~o.wait
              THEN \* terminate() sent, wait(timeout=5) raised TimeoutExpired
                   [fields |-> f2, remote |-> remote, signalled |-> {pid}, exited |-> {},
                    raised |-> r1 \cup {"_java_process.wait"}]
              ELSE [fields |-> done, remote |-> remote, signalled |-> {pid} \cap alive,
                    exited |-> {pid} \cap alive, raised |-> r1]

Close(c) ==
    \E o \in TeardownChoices(Fields(c), running) :
      LET r == CloseFields(Fields(c), running, o)
      IN /\ SetFields(c, r.fields)
         /\ running' = running \ r.exited
         /\ closed' = IF is_connected(c) /\ ~FieldsConnected(r.fields)
                       THEN closed \cup {c} ELSE closed
         /\ UNCHANGED <<launched, retryVars, otherVars>>
         /\ last' = Call("close", c, r.raised, "returned", r.remote, NoPid, r.signalled)

\* ----------------------------------------------------------------- connect
\* How far one connect() gets: _get_jar_path raises, Popen raises, the process
\* is found exited by poll(), the JavaGateway client or its entry point cannot
\* be made, createConnection raises, the _test_connection probe raises, or
\* every step succeeds.
ConnectOutcomes ==
    {"jar_missing", "popen_fails", "exited_early", "bridge_fails",
     "createConnection_fails", "probe_fails", "ok"}

\* The number of steps of connect() an outcome completes.
Reached(o) ==
    CASE o = "jar_missing" -> 0
      [] o = "popen_fails" -> 1
      [] o = "exited_early" -> 2
      [] o = "bridge_fails" -> 3
      [] o = "createConnection_fails" -> 4
      [] o = "probe_fails" -> 5
      [] o = "ok" -> 6

\* The flag set as soon as the bridge client exists, before createConnection
\* and the probe.
SetsFlagEarly(n) == n >= 4
\* self._is_connected = True comes after the probe, the last of the six steps.
SetsFlag(n) == n >= 6

\* connect() without its guard.
ConnectAlways(f) == FALSE
\* The guard at the top of connect(): an established connection returns self.
ConnectSkips(f) == f.is_connected

\* FlussConnection._start_java_gateway_server: "pkill -f SimplePy4JGatewayServer"
\* ends every gateway process of this machine when it runs (pk), whichever
\* connection launched it; then the new process pid is launched.
\* The try block of connect() on fields f: the fields when the block is left,
\* the processes alive, the remote calls issued, the process launched and the
\* processes signalled.
ConnectTry(f, alive, pid, o, pk) ==
    LET n == Reached(o)
        alive1 == IF n >= 1 /\ pk THEN {} ELSE alive
        hit == IF n >= 1 /\ pk THEN alive ELSE {}
        f2 == IF n >= 2 THEN [f EXCEPT !.java_process = pid] ELSE f
        alive3 == IF n >= 3 THEN alive1 \cup {pid} ELSE alive1
        f4 == IF n >= 4 THEN [f2 EXCEPT !.gateway = "gateway", !.java_app = "entry_point"]
                        ELSE f2
        f5 == IF n >= 5 THEN [f4 EXCEPT !.java_connection = "connection"] ELSE f4
        f6 == IF SetsFlag(n) THEN [f5 EXCEPT !.is_connected = TRUE] ELSE f5
        remote == IF n >= 5 THEN <<R("createConnection"), R("toString")>>
                  ELSE IF n >= 4 THEN <<R("createConnection")>> ELSE <<>>
    IN [fields |-> f6, alive |-> alive3, remote |-> remote,
        started |-> IF n >= 2 THEN pid ELSE NoPid, signalled |-> hit,
        failed |-> n < 6]

\* atexit.register(self.close), which connect() calls once the probe passed.
CloseHook(c) == [fn |-> "FlussConnection.close", obj |-> c]

\* FlussConnection.connect on fields f: the guard, the try block and, when a
\* step raised, the except branch: self.close() (with the outcomes t of its
\* teardown steps) and then ConnectionError.  What the call leaves and
\* reports; arg is how far the try block got.
ConnectCall(f, alive, pid, o, pk, t) ==
    IF ConnectSkips(f)
    THEN [fields |-> f, alive |-> alive, arg |-> None, result |-> "self",
          remote |-> <<>>, started |-> NoPid, signalled |-> {}, registered |-> FALSE]
    ELSE LET a == ConnectTry(f, alive, pid, o, pk)
             r == CloseFields(a.fields, a.alive, t)
         IN IF a.failed
            THEN [fields |-> r.fields, alive |-> a.alive \ r.exited, arg |-> o,
                  result |-> "ConnectionError", remote |-> a.remote \o r.remote,
                  started |-> a.started, signalled |-> a.signalled \cup r.signalled,
                  registered |-> FALSE]
            ELSE [fields |-> a.fields, alive |-> a.alive, arg |-> o,
                  result |-> "self", remote |-> a.remote,
                  started |-> a.started, signalled |-> a.signalled,
                  registered |-> TRUE]

\* The outcomes of one connect() on fields f that can differ: none when the
\* guard returns; else how far the try block gets, what pkill does and, when
\* a step raised, what the teardown steps of the except branch do.
ConnectChoices(f, alive, pid) ==
    IF ConnectSkips(f)
    THEN {[o |-> "ok", pk |-> FALSE, t |-> [jclose |-> TRUE, shutdown |-> TRUE, wait |-> TRUE]]}
    ELSE {x \in [o : ConnectOutcomes, pk : PkillOutcomes(alive), t : TeardownOutcomes] :
            LET a == ConnectTry(f, alive, pid, x.o, x.pk)
            IN IF a.failed THEN x.t \in TeardownChoices(a.fields, a.alive)
               ELSE x.t = [jclose |-> TRUE, shutdown |-> TRUE, wait |-> TRUE]}

Connect(c) ==
    /\ ConnectSkips(Fields(c)) \/ launched < MaxProcs
    /\ UNCHANGED <<closed, retryVars, dataVars, metaVars, sessVars, gwVars, python>>
    /\ \E x \in ConnectChoices(Fields(c), running, launched + 1) :
         LET k == ConnectCall(Fields(c), running, launched + 1, x.o, x.pk, x.t)
         IN /\ SetFields(c, k.fields)
            /\ running' = k.alive
            /\ launched' = IF k.started = NoPid THEN launched ELSE k.started
            /\ atexit' = IF k.registered THEN Append(atexit, CloseHook(c)) ELSE atexit
            /\ last' = Call("connect", c, k.arg, k.result, k.remote, k.started, k.signalled)

\* -------------------------------------------------------------- operations
\* FlussConnection._ensure_connected: raises ConnectionError unless connected.
EnsureConnectedRaises(f) == ~FieldsConnected(f)

\* FlussConnection._get_connection on connected fields: the cached Java
\* connection, created by a remote createConnection when there is none.
\* ok is whether that createConnection returns.
GetConnection(f, ok) ==
    IF f.java_connection # None
    THEN [fields |-> f, remote |-> <<>>, raised |-> FALSE]
    ELSE IF ok
    THEN [fields |-> [f EXCEPT !.java_connection = "connection"],
          remote |-> <<R("createConnection")>>, raised |-> FALSE]
    ELSE [fields |-> f, remote |-> <<R("createConnection")>>, raised |-> TRUE]

\* The operations of a connection that take no table path.
AdminOps ==
    {"create_database", "create_table", "list_databases", "list_tables",
     "drop_database", "drop_table", "get_table_schema"}
PlainOps == {"get_admin", "getAdmin", "execute_sql"}

\* The calls an operation makes on the Java objects after _get_connection,
\* in order, when each returns.
JavaCalls(op) ==
    CASE op = "get_admin" -> <<"getAdmin">>
      [] op = "getAdmin" -> <<"getAdmin">>
      [] op = "execute_sql" -> <<>>
      [] op = "create_database" -> <<"getAdmin", "createDatabase">>
      [] op = "create_table" -> <<"getAdmin", "createTable">>
      [] op = "list_databases" -> <<"getAdmin", "listDatabases">>
      [] op = "list_tables" -> <<"getAdmin", "listTables">>
      [] op = "drop_database" -> <<"getAdmin", "dropDatabase">>
      [] op = "drop_table" -> <<"getAdmin", "dropTable">>
      [] op = "get_table_schema" -> <<"getTable", "getTableInfo">>

\* What an operation returns when every call returned, and what it does when
\* one raised: the administrative operations catch the exception and return a
\* failure value, the others let it propagate.
Success(op) ==
    CASE op \in {"get_admin", "getAdmin"} -> "admin"
      [] op \in {"list_databases", "list_tables"} -> "list"
      [] op = "get_table_schema" -> "schema"
      [] OTHER -> "True"
\* The exception of a failed operation let through to the caller.
FailureRaises(op) == "RuntimeError"
Failure(op) ==
    CASE op \in {"list_databases", "list_tables"} -> "[]"
      [] op = "get_table_schema" -> "None"
      [] op \in AdminOps -> "False"
      [] OTHER -> "RemoteError"

\* The remote calls of calls[1..n] (a retried call is listed once, however
\* many attempts it took).
Issued(calls, n) == [i \in 1..n |-> R(calls[i])]

\* get_admin, getAdmin, execute_sql and the administrative operations.
\* ok is whether createConnection returns, n the call that raises (0: none).
Operation(c, op) ==
    /\ UNCHANGED <<running, launched, closed, retryVars, otherVars>>
    /\ IF EnsureConnectedRaises(Fields(c))
       THEN /\ UNCHANGED connVars
            /\ last' = Call(op, c, None, "ConnectionError", <<>>, NoPid, {})
       ELSE IF op = "execute_sql"
       THEN /\ UNCHANGED connVars
            /\ last' = Call(op, c, None, "NotImplementedError", <<>>, NoPid, {})
       ELSE \E ok \in (IF _java_connection[c] = None THEN BOOLEAN ELSE {TRUE}) :
              LET g == GetConnection(Fields(c), ok)
                  calls == JavaCalls(op)
              IN /\ SetFields(c, g.fields)
                 /\ IF g.raised
                    THEN last' = Call(op, c, None, Failure(op), g.remote, NoPid, {})
                    ELSE \E n \in 0..Len(calls) :
                           last' = Call(op, c, None,
                                        IF n = 0 THEN Success(op) ELSE Failure(op),
                                        g.remote \o Issued(calls, IF n = 0 THEN Len(calls) ELSE n),
                                        NoPid, {})

\* ------------------------------------------------------------- table paths
\* A string is the sequence of its characters.
MaxPathLen == 5
Alphabet == {"a", "b", "."}
Strings(n) == UNION {[1..k -> Alphabet] : k \in 0..n}
Paths == Strings(MaxPathLen)

\* str.split(sep): the pieces between the occurrences of sep, empty ones kept.
RECURSIVE split(_, _)
split(s, sep) ==
    IF \A i \in 1..Len(s) : s[i] # sep
    THEN <<s>>
    ELSE LET i == CHOOSE j \in 1..Len(s) :
                     s[j] = sep /\ \A k \in 1..(j - 1) : s[k] # sep
         IN <<SubSeq(s, 1, i - 1)>> \o split(SubSeq(s, i + 1, Len(s)), sep)

\* A parsing that takes the first two of three parts.
ParseKeepsCatalog(table_path) ==
    LET parts == split(table_path, ".")
    IN IF Len(parts) \in {2, 3}
       THEN [raised |-> FALSE, database_name |-> parts[1], table_name |-> parts[2]]
       ELSE [raised |-> TRUE, database_name |-> None, table_name |-> None]

\* The path parsing of create_writer and create_reader: two parts are
\* database and table, three parts are catalog, database and table with the
\* catalog bound to "_" and dropped, anything else raises ValueError.
ParseTablePath(table_path) ==
    LET parts == split(table_path, ".")
    IN IF Len(parts) = 2
       THEN [raised |-> FALSE, database_name |-> parts[1], table_name |-> parts[2]]
       ELSE IF Len(parts) = 3
       THEN [raised |-> FALSE, database_name |-> parts[2], table_name |-> parts[3]]
       ELSE [raised |-> TRUE, database_name |-> None, table_name |-> None]

\* The calls create_writer / create_reader make after getTable.
PathOps == {"create_writer", "create_reader"}
TableCalls(op) ==
    IF op = "create_writer"
    THEN <<R("createDataWriter")>>
    ELSE <<R("FlussDataReaderFactory"), R("createScanReader")>>
Built(op) == IF op = "create_writer" THEN "writer" ELSE "reader"

\* create_writer(table_path) and create_reader(table_path): the connected
\* check, the parsing, then getTable(database_name, table_name) on the cached
\* connection and the construction of the Java writer / reader.  Every raise
\* propagates to the caller.  n is the call that raises (0: none).
PathOperation(c, op, table_path) ==
    /\ UNCHANGED <<running, launched, closed, retryVars, otherVars>>
    /\ IF EnsureConnectedRaises(Fields(c))
       THEN /\ UNCHANGED connVars
            /\ last' = Call(op, c, table_path, "ConnectionError", <<>>, NoPid, {})
       ELSE LET parsed == ParseTablePath(table_path)
            IN IF parsed.raised
               THEN /\ UNCHANGED connVars
                    /\ last' = Call(op, c, table_path, "ValueError", <<>>, NoPid, {})
               ELSE \E ok \in (IF _java_connection[c] = None THEN BOOLEAN ELSE {TRUE}) :
                      LET g == GetConnection(Fields(c), ok)
                          calls == <<<<"getTable", parsed.database_name, parsed.table_name>>>>
                                   \o TableCalls(op)
                      IN /\ SetFields(c, g.fields)
                         /\ IF g.raised
                            THEN last' = Call(op, c, table_path, "RemoteError", g.remote,
                                              NoPid, {})
                            ELSE \E n \in 0..Len(calls) :
                                   last' = Call(op, c, table_path,
                                                IF n = 0 THEN Built(op) ELSE "RemoteError",
                                                g.remote \o SubSeq(calls, 1,
                                                    IF n = 0 THEN Len(calls) ELSE n),
                                                NoPid, {})

\* The paths the lifecycle specification calls create_writer / create_reader
\* with: one that parses and one that does not.
SamplePaths == {<<"a", ".", "b">>, <<"a">>}

\* ------------------------------------------------------------------- retry
\* The largest max_retries a call is given.
MaxRetries == 4
\* The default timeout, in seconds, of one attempt.
DefaultTimeout == 30

\* An exception: its class and its message, str(e), a sequence of words.
Exc(kind, msg) == [kind |-> kind, msg |-> msg]
\* The value None where an exception is expected, with str(None) = "None".
NoException == Exc("NoneType", <<"None">>)
str(e) == e.msg
Contains(text, word) == \E i \in 1..Len(text) : text[i] = word

\* What one attempt meets: operation_func raises; it returns a plain value;
\* it returns a future whose get(timeout) returns, raises Py4JJavaError for a
\* java.util.concurrent.TimeoutException (the wait timed out), for a remote
\* failure, or for a remote failure whose text names a TimeoutException of
\* the engine; or get raises something that is no Py4JJavaError.
AttemptOutcomes ==
    {"operation_raises", "plain_value", "get_returns", "get_times_out",
     "get_remote_failure", "get_remote_timeout_text", "get_bridge_failure"}

\* The object operation_func returns in attempt k (1-based) under outcome o.
FutureResult(o, k) ==
    [has_get |-> o # "plain_value",
     get |-> CASE o \in {"plain_value", "get_returns"} -> "returns"
               [] o = "get_bridge_failure" -> "Exception"
               [] OTHER -> "Py4JJavaError",
     value |-> <<"result", ToString(k)>>,
     text |-> CASE o = "get_times_out" ->
                     <<"java.util.concurrent", "TimeoutException">>
                [] o = "get_remote_timeout_text" ->
                     <<"ExecutionException", "TimeoutException", ToString(k)>>
                [] o = "get_remote_failure" ->
                     <<"ExecutionException", "failure", ToString(k)>>
                [] OTHER -> <<"Py4JNetworkError", ToString(k)>>]

\* A test that never recognises a timeout.
NeverTimeout(text) == FALSE
\* if "TimeoutException" in str(e)
IsTimeout(text) == Contains(text, "TimeoutException")

\* FlussConnection._handle_async_operation(future_result, timeout).
_handle_async_operation(future_result, timeout) ==
    IF ~future_result.has_get \/ future_result.get = "returns"
    THEN [raised |-> FALSE, value |-> future_result.value]
    ELSE IF future_result.get = "Py4JJavaError"
    THEN IF IsTimeout(future_result.text)
         THEN [raised |-> TRUE,
               value |-> Exc("TimeoutError",
                             <<"Operation timed out after", ToString(timeout), "seconds">>)]
         ELSE [raised |-> TRUE,
               value |-> Exc("RuntimeError",
                             <<"Async operation failed:">> \o future_result.text)]
    ELSE [raised |-> TRUE,
          value |-> Exc("RuntimeError",
                        <<"Failed to handle async operation:">> \o future_result.text)]

\* One pass through the try block of the loop, attempt k (1-based).
TryAttempt(o, k) ==
    IF o = "operation_raises"
    THEN [raised |-> TRUE, value |-> Exc("Py4JError", <<"call failed", ToString(k)>>)]
    ELSE _handle_async_operation(FutureResult(o, k), DefaultTimeout)

\* A loop that stops one attempt early.
LoopRunsShort(a, m) == a < m - 1
\* for attempt in range(max_retries)
LoopRuns(a, m) == a < m
\* if attempt < max_retries - 1
SleepsAfter(a, m) == a < m - 1
\* The exponential backoff the source's comment speaks of.
BackoffExponential(a) == 2 ^ a
\* time.sleep(1 * (attempt + 1))
Backoff(a) == 1 * (a + 1)
\* The RuntimeError raised when the loop is left.
ConsolidatedError(m, e) ==
    Exc("RuntimeError",
        <<"Async operation failed after", ToString(m), "attempts. Last error:">> \o str(e))

RetryIdle ==
    /\ retry_pc = "idle"
    /\ max_retries = 0
    /\ attempt = 0
    /\ last_exception = NoException
    /\ invoked = 0
    /\ slept = <<>>
    /\ history = <<>>
    /\ outcome = None

\* DatabaseDescriptorBuilder.__init__ (one builder, with its own empty dict);
\* no descriptor made yet.
MetaIdle ==
    /\ dicts = <<<<>>>>
    /\ descriptors = <<>>
    /\ builder = [comment |-> None, custom_properties |-> 1]
    /\ held = {}

\* _global_connection = None at import; nothing constructed by connect().
SessIdle ==
    /\ _global_connection = NoConn
    /\ constructed = 0

\* The max-workers entry of a catalog's options: absent, or a number.
Unset == [set |-> FALSE, value |-> 1]

\* java_gateway at import: no bridge client, no process, nothing registered
\* with atexit, the default signal dispositions; no Catalog made.
GatewayIdle ==
    /\ _gateway_module = None
    /\ _gateway_proc = NoPid
    /\ servers = {}
    /\ gateway_pc = "idle"
    /\ atexit = <<>>
    /\ handlers = FALSE
    /\ python = "up"
    /\ catalog = [made |-> FALSE, options |-> Unset]

\* A remote engine that holds nothing.
EmptyStore == [dbs |-> {}, tables |-> {}, rows |-> {}]
\* The objects a connection hands out: one writer, one reader, one Admin.
\* made: whether it was created; conn, session: the connection that made it
\* and that connection's gateway process then; table: the table of a writer
\* or reader; snapshot, position: the records the remote reader behind a
\* reader delivers, and how many of them it has delivered.
Handles == {"writer", "reader", "admin"}
NoHandle ==
    [made |-> FALSE, _is_closed |-> FALSE, conn |-> NoConn, session |-> NoPid,
     table |-> <<>>, snapshot |-> <<>>, position |-> 0]
StoreIdle == store = EmptyStore /\ handle = [h \in Handles |-> NoHandle]

OtherIdle == MetaIdle /\ SessIdle /\ GatewayIdle /\ StoreIdle

lifeVars == <<connVars, running, launched, closed, last, otherVars>>

\* _handle_async_operation_with_retry(operation_func, max_retries = m) is called.
RetryCall(m) ==
    /\ retry_pc = "idle"
    /\ retry_pc' = "loop"
    /\ max_retries' = m
    /\ UNCHANGED <<attempt, last_exception, invoked, slept, history, outcome, lifeVars>>

\* One iteration of the loop: the attempt returns, or its exception is kept
\* and the backoff is slept unless this was the last attempt.
RetryAttempt(o) ==
    /\ retry_pc = "loop"
    /\ LoopRuns(attempt, max_retries)
    /\ LET r == TryAttempt(o, attempt + 1)
       IN /\ invoked' = invoked + 1
          /\ IF r.raised
             THEN /\ last_exception' = r.value
                  /\ history' = Append(history, [met |-> o, caught |-> r.value])
                  /\ slept' = IF SleepsAfter(attempt, max_retries)
                              THEN Append(slept, Backoff(attempt)) ELSE slept
                  /\ attempt' = attempt + 1
                  /\ UNCHANGED <<retry_pc, outcome>>
             ELSE /\ retry_pc' = "returned"
                  /\ outcome' = r.value
                  /\ UNCHANGED <<last_exception, history, slept, attempt>>
    /\ UNCHANGED <<max_retries, lifeVars>>

\* The loop is left without a return: the consolidated error is raised.
RetryExhausted ==
    /\ retry_pc = "loop"
    /\ ~LoopRuns(attempt, max_retries)
    /\ retry_pc' = "raised"
    /\ outcome' = ConsolidatedError(max_retries, last_exception)
    /\ UNCHANGED <<max_retries, attempt, last_exception, invoked, slept, history, lifeVars>>

NextRetry ==
    \/ \E m \in 0..MaxRetries : RetryCall(m)
    \/ \E o \in AttemptOutcomes : RetryAttempt(o)
    \/ RetryExhausted

\* -------------------------------------------------------------------- init
Init ==
    /\ _gateway = [c \in Conns |-> None]
    /\ _java_process = [c \in Conns |-> NoPid]
    /\ _java_app = [c \in Conns |-> None]
    /\ _java_connection = [c \in Conns |-> None]
    /\ _is_connected = [c \in Conns |-> FALSE]
    /\ running = {}
    /\ launched = 0
    /\ closed = {}
    /\ last = Call("init", 0, None, None, <<>>, NoPid, {})
    /\ RetryIdle
    /\ OtherIdle

Next ==
    \E c \in Conns :
        \/ Connect(c)
        \/ Close(c)
        \/ \E op \in PlainOps \cup AdminOps : Operation(c, op)
        \/ \E op \in PathOps, table_path \in SamplePaths : PathOperation(c, op, table_path)

Spec == Init /\ [][Next]_vars

\* ------------------------------------------------ life cycle specification
\* connect(), close() and the operations without arguments.  An operation
\* changes a connection only inside _get_connection, which get_admin and
\* getAdmin call as every other operation does, so the connections reach the
\* same fields here as under Spec.
NextLife ==
    \E c \in Conns :
        \/ Connect(c)
        \/ Close(c)
        \/ \E op \in PlainOps : Operation(c, op)

SpecLife == Init /\ [][NextLife]_vars

\* ------------------------------------------------- table path specification
\* Every connection is as constructed, or as a successful connect() leaves
\* it (connection c holding process c), or as a close() whose
\* _gateway.shutdown() raised leaves a connected one (no cached Java
\* connection), and a path is drawn; then create_writer or create_reader is
\* called with it on one of them.
InitPath ==
    \E up \in SUBSET Conns, cached \in SUBSET Conns, table_path \in Paths :
        /\ up \subseteq Pids
        /\ cached \subseteq up
        /\ _gateway = [c \in Conns |-> IF c \in up THEN "gateway" ELSE None]
        /\ _java_process = [c \in Conns |-> IF c \in up THEN c ELSE NoPid]
        /\ _java_app = [c \in Conns |-> IF c \in up THEN "entry_point" ELSE None]
        /\ _java_connection = [c \in Conns |-> IF c \in cached THEN "connection" ELSE None]
        /\ _is_connected = [c \in Conns |-> c \in up]
        /\ running = up
        /\ launched = Cardinality(up)
        /\ closed = {}
        /\ last = Call("input", 0, table_path, None, <<>>, NoPid, {})
        /\ RetryIdle
        /\ OtherIdle

NextPath ==
    \E c \in Conns, op \in PathOps :
        /\ last.op = "input"
        /\ PathOperation(c, op, last.arg)

SpecPath == InitPath /\ [][NextPath]_vars

\* ------------------------------------------------------ retry specification
SpecRetry == Init /\ [][NextRetry]_vars

\* ============================================================ list operations
\* The state of a run that uses no connection and no retry loop: every
\* connection as constructed, no process, the retry loop idle.
Quiet ==
    /\ _gateway = [c \in Conns |-> None]
    /\ _java_process = [c \in Conns |-> NoPid]
    /\ _java_app = [c \in Conns |-> None]
    /\ _java_connection = [c \in Conns |-> None]
    /\ _is_connected = [c \in Conns |-> FALSE]
    /\ running = {}
    /\ launched = 0
    /\ closed = {}
    /\ RetryIdle
    /\ OtherIdle

\* A call on a value that is not a connection leaves everything but the
\* observation unchanged.
Observe(op, arg, result) ==
    /\ last' = Call(op, 0, arg, result, <<>>, NoPid, {})
    /\ UNCHANGED <<connVars, running, launched, closed, retryVars, otherVars>>

\* The Java collection a successful listDatabases / listTables yields: its
\* elements in iteration order (Java objects, here numbers), at most
\* MaxListLen of them.
MaxListLen == 3
Elements == {1, 2}
Collections == UNION {[1..k -> Elements] : k \in 0..MaxListLen}

\* Where an iteration raises: after that many elements (0: the iterator could
\* not be made, or the first hasNext()/next() raised), or never.
Never(coll) == Len(coll) + 1
FailPoints(coll) == 0..Never(coll)

\* str(x) of an element of the collection.
StrOf(x) == ToString(x)

\* iterator = c.iterator(); while iterator.hasNext():
\* result.append(str(iterator.next())), with i elements consumed so far.
RECURSIVE IteratorWalk(_, _, _, _)
IteratorWalk(coll, i, fail, result) ==
    IF fail = i
    THEN [raised |-> TRUE, result |-> result]
    ELSE IF i = Len(coll)
    THEN [raised |-> FALSE, result |-> result]
    ELSE IteratorWalk(coll, i + 1, fail, Append(result, StrOf(coll[i + 1])))

\* [str(x) for x in c]: the whole list, or an exception and no list.
DirectIteration(coll, fail) ==
    IF fail = Never(coll)
    THEN [raised |-> FALSE, result |-> [i \in 1..Len(coll) |-> StrOf(coll[i])]]
    ELSE [raised |-> TRUE, result |-> <<>>]

\* A conversion whose fallbacks keep what the failed walk had appended.
ToListKeepsPartial(coll, wf, df) ==
    LET w == IteratorWalk(coll, 0, wf, <<>>)
        d == DirectIteration(coll, df)
    IN [raised |-> FALSE,
        result |-> IF ~w.raised THEN w.result
                   ELSE IF ~d.raised THEN w.result \o d.result ELSE w.result]
\* The conversion of list_databases and list_tables (Admin and
\* FlussConnection alike): the walk; when it raised (bare except) the direct
\* iteration, assigned to result; when that raised too, result = [].
ToList(coll, wf, df) ==
    LET w == IteratorWalk(coll, 0, wf, <<>>)
        d == DirectIteration(coll, df)
    IN [raised |-> FALSE,
        result |-> IF ~w.raised THEN w.result
                   ELSE IF ~d.raised THEN d.result ELSE <<>>]

ListOps == {"Admin.list_databases", "Admin.list_tables",
            "list_databases", "list_tables"}

\* A collection and the points where its two iterations raise are drawn;
\* then one of the list operations converts it.
InitList ==
    /\ Quiet
    /\ \E coll \in Collections :
       \E wf \in FailPoints(coll), df \in FailPoints(coll) :
          last = Call("input", 0, [coll |-> coll, wf |-> wf, df |-> df], None,
                      <<>>, NoPid, {})

ListOperation(op) ==
    /\ last.op = "input"
    /\ LET a == last.arg
           r == ToList(a.coll, a.wf, a.df)
       IN Observe(op, a, r)

NextList == \E op \in ListOps : ListOperation(op)

SpecList == InitList /\ [][NextList]_vars

\* ============================================================== table schemas
\* A schema as create_table takes it: the field names in order and the
\* primary-key names in order.  Names are unique and non-empty, the primary
\* keys are names of the schema, without repetition.
MaxFields == 3
FieldNames == {"id", "name", "ts"}
NoRepeat(s) == \A i, j \in 1..Len(s) : s[i] = s[j] => i = j
Range(s) == {s[i] : i \in 1..Len(s)}
Lists(S, n) == UNION {[1..k -> S] : k \in 0..n}
UniqueLists == {s \in Lists(FieldNames, MaxFields) : NoRepeat(s)}
TableSchemas ==
    {s \in [names : UniqueLists, primary_keys : UniqueLists] :
        Range(s.primary_keys) \subseteq Range(s.names)}

\* The Java Schema that create_table builds: a column per entry of the
\* schema, in order, and primaryKey(...) only "if primary_keys:".
BuildJavaSchema(names, primary_keys) ==
    [columns |-> names,
     primaryKey |-> IF primary_keys # <<>> THEN primary_keys ELSE <<>>]

\* The remote engine: getTable(...).getTableInfo() of a table answers with
\* the row type of the schema the table was created with.
RowTypeFieldNames(java_schema) == java_schema.columns

\* The dictionary get_table_schema returns: a column per field name of the
\* row type, in order, and primary_keys = [] (the extraction of the primary
\* keys is a comment in the source).
TableSchemaDict(java_schema) ==
    [columns |-> RowTypeFieldNames(java_schema), primary_keys |-> <<>>]

\* Connection 1 is as a successful connect() leaves it, the others are as
\* constructed; a schema is drawn.
InitSchema ==
    /\ _gateway = [c \in Conns |-> IF c = 1 THEN "gateway" ELSE None]
    /\ _java_process = [c \in Conns |-> IF c = 1 THEN 1 ELSE NoPid]
    /\ _java_app = [c \in Conns |-> IF c = 1 THEN "entry_point" ELSE None]
    /\ _java_connection = [c \in Conns |-> IF c = 1 THEN "connection" ELSE None]
    /\ _is_connected = [c \in Conns |-> c = 1]
    /\ running = {1}
    /\ launched = 1
    /\ closed = {}
    /\ RetryIdle
    /\ OtherIdle
    /\ \E s \in TableSchemas : last = Call("input", 0, s, None, <<>>, NoPid, {})

\* create_table(database_name, table_name, schema) on connection c with the
\* drawn schema; ok is whether the remote createTable succeeds.
CreateTable(c, ok) ==
    /\ last.op = "input"
    /\ UNCHANGED <<connVars, running, launched, closed, retryVars, otherVars>>
    /\ IF EnsureConnectedRaises(Fields(c))
       THEN last' = Call("create_table", c, last.arg, "ConnectionError", <<>>, NoPid, {})
       ELSE LET java_schema == BuildJavaSchema(last.arg.names, last.arg.primary_keys)
            IN last' = Call("create_table", c, last.arg,
                            IF ok THEN "True" ELSE "False",
                            <<R("getAdmin"), <<"createTable", java_schema>>>>, NoPid, {})

\* get_table_schema(database_name, table_name) on the connection that has
\* just created the table; ok is whether getTable and getTableInfo succeed.
\* The result is the dictionary, or None.
GetTableSchema(c, ok) ==
    /\ last.op = "create_table" /\ last.obj = c /\ last.result = "True"
    /\ UNCHANGED <<connVars, running, launched, closed, retryVars, otherVars>>
    /\ LET java_schema == last.remote[2][2]
       IN last' = Call("get_table_schema", c, last.arg,
                       IF ok THEN [none |-> FALSE, dict |-> TableSchemaDict(java_schema)]
                             ELSE [none |-> TRUE, dict |-> TableSchemaDict(java_schema)],
                       IF ok THEN <<R("getTable"), R("getTableInfo")>> ELSE <<R("getTable")>>,
                       NoPid, {})

NextSchema ==
    \E c \in Conns, ok \in BOOLEAN : CreateTable(c, ok) \/ GetTableSchema(c, ok)

SpecSchema == InitSchema /\ [][NextSchema]_vars

\* ===================================================== remote type inference
\* A string is the sequence of its characters.  s.lower() changes the upper
\* case letters and leaves every other character.
UpperCase == <<"A", "B", "C", "D", "E", "F", "G", "H", "I", "J", "K", "L", "M", "N", "O", "P", "Q", "R", "S", "T", "U", "V", "W", "X", "Y", "Z">>
LowerCase == <<"a", "b", "c", "d", "e", "f", "g", "h", "i", "j", "k", "l", "m", "n", "o", "p", "q", "r", "s", "t", "u", "v", "w", "x", "y", "z">>
LowerChar(ch) ==
    IF \E i \in 1..Len(UpperCase) : UpperCase[i] = ch
    THEN LowerCase[CHOOSE i \in 1..Len(UpperCase) : UpperCase[i] = ch]
    ELSE ch
lower(s) == [i \in 1..Len(s) |-> LowerChar(s[i])]

\* word in s
In(word, s) ==
    \E i \in 1..(Len(s) - Len(word) + 1) : SubSeq(s, i, i + Len(word) - 1) = word

\* The substrings _java_type_to_arrow_type looks for.
W_bigint == <<"b", "i", "g", "i", "n", "t">>
W_int == <<"i", "n", "t">>
W_string == <<"s", "t", "r", "i", "n", "g">>
W_varchar == <<"v", "a", "r", "c", "h", "a", "r">>
W_double == <<"d", "o", "u", "b", "l", "e">>
W_float == <<"f", "l", "o", "a", "t">>
W_boolean == <<"b", "o", "o", "l", "e", "a", "n">>
W_timestamp == <<"t", "i", "m", "e", "s", "t", "a", "m", "p">>
W_date == <<"d", "a", "t", "e">>
W_decimal == <<"d", "e", "c", "i", "m", "a", "l">>
W_bytes == <<"b", "y", "t", "e", "s">>
W_binary == <<"b", "i", "n", "a", "r", "y">>

\* The string forms of remote types: the names of the types of the engine,
\* in the case the engine prints them and in lower case, and every string of
\* at most MaxTypeLen of the letters of "bigint".
MaxTypeLen == 6
TypeLetters == {"b", "i", "g", "n", "t"}
TypeNames ==
    {<<"B", "I", "G", "I", "N", "T">>,
     <<"I", "N", "T">>,
     <<"T", "I", "N", "Y", "I", "N", "T">>,
     <<"S", "M", "A", "L", "L", "I", "N", "T">>,
     <<"B", "I", "G", "I", "N", "T", " ", "N", "O", "T", " ", "N", "U", "L", "L">>,
     <<"I", "N", "T", " ", "N", "O", "T", " ", "N", "U", "L", "L">>,
     <<"S", "T", "R", "I", "N", "G">>,
     <<"V", "A", "R", "C", "H", "A", "R">>,
     <<"C", "H", "A", "R">>,
     <<"D", "O", "U", "B", "L", "E">>,
     <<"F", "L", "O", "A", "T">>,
     <<"B", "O", "O", "L", "E", "A", "N">>,
     <<"T", "I", "M", "E", "S", "T", "A", "M", "P">>,
     <<"D", "A", "T", "E">>,
     <<"T", "I", "M", "E">>,
     <<"D", "E", "C", "I", "M", "A", "L">>,
     <<"B", "Y", "T", "E", "S">>,
     <<"B", "I", "N", "A", "R", "Y">>,
     <<"A", "R", "R", "A", "Y">>,
     <<"b", "i", "g", "i", "n", "t">>,
     <<"s", "t", "r", "i", "n", "g">>}
TypeStrings == TypeNames \cup UNION {[1..k -> TypeLetters] : k \in 0..MaxTypeLen}

\* The if / elif cascade of _java_type_to_arrow_type on the lowered string,
\* in the order of the source: "int" is looked for first.
Cascade(type_str) ==
    IF In(W_int, type_str) THEN "int32"
    ELSE IF In(W_bigint, type_str) THEN "int64"
    ELSE IF In(W_string, type_str) \/ In(W_varchar, type_str) THEN "string"
    ELSE IF In(W_double, type_str) THEN "float64"
    ELSE IF In(W_float, type_str) THEN "float32"
    ELSE IF In(W_boolean, type_str) THEN "bool"
    ELSE IF In(W_timestamp, type_str) THEN "timestamp[us]"
    ELSE IF In(W_date, type_str) THEN "date32"
    ELSE IF In(W_decimal, type_str) THEN "decimal128(38, 18)"
    ELSE IF In(W_bytes, type_str) \/ In(W_binary, type_str) THEN "binary"
    ELSE "string"

\* _java_type_to_arrow_type(j_data_type), on str(j_data_type).
_java_type_to_arrow_type(j_data_type) == Cascade(lower(j_data_type))

InitType ==
    /\ Quiet
    /\ \E t \in TypeStrings : last = Call("input", 0, t, None, <<>>, NoPid, {})

JavaTypeToArrowType ==
    /\ last.op = "input"
    /\ Observe("_java_type_to_arrow_type", last.arg, _java_type_to_arrow_type(last.arg))

SpecType == InitType /\ [][JavaTypeToArrowType]_vars

\* ============================================================== ArrowSchema
\* A pyarrow schema: the field names in order (a name is the sequence of its
\* characters) and the metadata, a dictionary from byte-string keys to byte
\* strings.  The only key the source reads or writes is b'primary_keys'.
\* A pyarrow schema is immutable; ArrowSchema holds one in _arrow_schema.
MaxArrowFields == 2
MaxKeys == 2
ArrowNames == {<<"a">>, <<"b">>, <<"a", ",", "b">>}
NameLists(n) == UNION {[1..k -> ArrowNames] : k \in 0..n}

\* str.encode('utf-8') and bytes.decode('utf-8') on the characters in use.
Ord(ch) == CASE ch = "a" -> 97 [] ch = "b" -> 98 [] ch = "," -> 44
Chr(b) == CASE b = 97 -> "a" [] b = 98 -> "b" [] b = 44 -> ","
encode(s) == [i \in 1..Len(s) |-> Ord(s[i])]
decode(bytes) == [i \in 1..Len(bytes) |-> Chr(bytes[i])]

\* sep.join(items)
RECURSIVE join(_, _)
join(sep, items) ==
    IF items = <<>> THEN <<>>
    ELSE IF Len(items) = 1 THEN items[1]
    ELSE items[1] \o sep \o join(sep, Tail(items))

\* Dictionaries: the empty one, d[k] = v on a copy, d.get(k).
EmptyDict == [k \in {} |-> <<>>]
Put(d, k, v) == [x \in DOMAIN d \cup {k} |-> IF x = k THEN v ELSE d[x]]
Truthy(d) == DOMAIN d # {}

ArrowOf(names, metadata) == [names |-> names, metadata |-> metadata]

\* ArrowSchema.get_field_names
get_field_names(s) == s.names

\* ArrowSchema.get_primary_keys: None unless the metadata is not empty, has a
\* non-empty value under b'primary_keys' and that value decodes to a
\* non-empty string, which is split at the commas.
get_primary_keys(s) ==
    IF Truthy(s.metadata) /\ "primary_keys" \in DOMAIN s.metadata
                          /\ s.metadata["primary_keys"] # <<>>
    THEN LET primary_keys_str == decode(s.metadata["primary_keys"])
         IN IF primary_keys_str # <<>>
            THEN [none |-> FALSE, list |-> split(primary_keys_str, ",")]
            ELSE [none |-> TRUE, list |-> <<>>]
    ELSE [none |-> TRUE, list |-> <<>>]

\* ArrowSchema.with_primary_keys(primary_keys): ValueError when a key is not
\* a field name; else a new ArrowSchema whose metadata is a copy of the
\* receiver's with b'primary_keys' set to the joined, encoded keys.  What is
\* returned: whether it raised, the new schema, the receiver afterwards.
with_primary_keys(s, primary_keys) ==
    IF \E i \in 1..Len(primary_keys) : primary_keys[i] \notin Range(get_field_names(s))
    THEN [raised |-> TRUE, value |-> s, self |-> s]
    ELSE [raised |-> FALSE,
          value |-> ArrowOf(s.names,
                            Put(s.metadata, "primary_keys",
                                encode(join(<<",">>, primary_keys)))),
          self |-> s]

\* ArrowSchema.select(field_names): ValueError when a name is not a field;
\* else a new ArrowSchema of the selected fields, in the order asked, with
\* the metadata of the receiver.
select(s, field_names) ==
    IF \E i \in 1..Len(field_names) : field_names[i] \notin Range(get_field_names(s))
    THEN [raised |-> TRUE, value |-> s, self |-> s]
    ELSE [raised |-> FALSE, value |-> ArrowOf(field_names, s.metadata), self |-> s]

\* create_schema_from_dict({'fields': ..., 'primary_key': ...}): the fields in
\* order; b'primary_keys' is set when the primary_key entry is a non-empty
\* list.  The entry is not compared with the fields.
create_schema_from_dict(field_names, primary_key) ==
    ArrowOf(field_names,
            IF primary_key # <<>>
            THEN Put(EmptyDict, "primary_keys", encode(join(<<",">>, primary_key)))
            ELSE EmptyDict)

\* Schema.from_arrow_schema(arrow_schema) wraps the schema it is given; here
\* one without metadata.
from_arrow_schema(field_names) == ArrowOf(field_names, EmptyDict)

ArrowOps == {"from_arrow_schema", "create_schema_from_dict", "with_primary_keys", "select"}

\* The ArrowSchema the last call left in hand: the one it returned, or its
\* receiver when it raised.
Current == IF last.result.raised THEN last.result.self ELSE last.result.value

ObserveSchema(op, s, param, r) ==
    Observe(op, [self |-> s, param |-> param], r)

FromArrowSchema(field_names) ==
    /\ Len(field_names) <= MaxArrowFields
    /\ LET s == from_arrow_schema(field_names)
       IN ObserveSchema("from_arrow_schema", s, field_names,
                        [raised |-> FALSE, value |-> s, self |-> s])

CreateSchemaFromDict(field_names, primary_key) ==
    /\ Len(field_names) <= MaxArrowFields
    /\ LET s == create_schema_from_dict(field_names, primary_key)
       IN ObserveSchema("create_schema_from_dict", s, primary_key,
                        [raised |-> FALSE, value |-> s, self |-> s])

WithPrimaryKeys(primary_keys) ==
    /\ last.op \in ArrowOps
    /\ ObserveSchema("with_primary_keys", Current, primary_keys,
                     with_primary_keys(Current, primary_keys))

Select(field_names) ==
    /\ last.op \in ArrowOps
    /\ ObserveSchema("select", Current, field_names, select(Current, field_names))

InitArrow ==
    /\ Quiet
    /\ last = Call("init", 0, None, None, <<>>, NoPid, {})

NextArrow ==
    \/ \E field_names \in NameLists(MaxArrowFields) : FromArrowSchema(field_names)
    \/ \E field_names \in NameLists(MaxArrowFields), primary_key \in NameLists(MaxKeys) :
          CreateSchemaFromDict(field_names, primary_key)
    \/ \E primary_keys \in NameLists(MaxKeys) : WithPrimaryKeys(primary_keys)
    \/ \E field_names \in NameLists(MaxArrowFields) : Select(field_names)

SpecArrow == InitArrow /\ [][NextArrow]_vars

\* ======================================================= DatabaseDescriptor
\* Python dicts are objects: dicts[i] is the content of the dict with
\* identity i, and a field that holds a dict holds its identity.  A
\* descriptor or builder that was given a dict shares it with whoever else
\* holds it.  At most MaxDicts dicts and MaxDescriptors descriptors are made.
MaxDicts == 3
MaxDescriptors == 2
Keys == {"k"}
Values == {"x", "y"}
Comments == {"c", "d"}
PropDicts == UNION {[S -> Values] : S \in SUBSET Keys}

\* d.update(p) on a copy.
Update(d, p) ==
    [x \in DOMAIN d \cup DOMAIN p |-> IF x \in DOMAIN p THEN p[x] ELSE d[x]]

\* DatabaseDescriptor.__init__(comment, custom_properties) with the dict of
\* identity id in the heap: self._custom_properties = custom_properties or {}
\* keeps the dict it was given unless that dict is empty, and makes a new
\* dict then.  The heap afterwards and the new object, with what its
\* comment and custom_properties read when it was made.
NewDescriptor(heap, comment, id) ==
    IF heap[id] # EmptyDict
    THEN [dicts |-> heap,
          obj |-> [_comment |-> comment, _custom_properties |-> id,
                   made |-> [comment |-> comment, custom_properties |-> heap[id]]]]
    ELSE [dicts |-> Append(heap, EmptyDict),
          obj |-> [_comment |-> comment, _custom_properties |-> Len(heap) + 1,
                   made |-> [comment |-> comment, custom_properties |-> EmptyDict]]]

\* The comment and custom_properties properties of descriptor i (the second
\* returns a copy, that is a content).
comment(i) == descriptors[i]._comment
custom_properties(i) == dicts[descriptors[i]._custom_properties]

\* The dicts a call may still make.
Room(n) == Len(dicts) + n <= MaxDicts /\ Len(descriptors) < MaxDescriptors

MetaStep(op, arg, r) ==
    /\ dicts' = r.dicts
    /\ descriptors' = Append(descriptors, r.obj)
    /\ last' = Call(op, 0, arg, Len(descriptors) + 1, <<>>, NoPid, {})
    /\ UNCHANGED <<connVars, running, launched, closed, retryVars, sessVars, gwVars, exitVars, dataVars>>

\* DatabaseDescriptor(comment, props) with a dict the caller made and keeps.
Constructor(c, props) ==
    /\ Room(2)
    /\ held' = held \cup {Len(dicts) + 1}
    /\ UNCHANGED builder
    /\ MetaStep("DatabaseDescriptor", props,
                NewDescriptor(Append(dicts, props), c, Len(dicts) + 1))

\* DatabaseDescriptorBuilder.comment / custom_property / custom_properties:
\* they assign to the builder's comment and write into the builder's dict.
BuilderComment(c) ==
    /\ builder' = [builder EXCEPT !.comment = c]
    /\ last' = Call("builder.comment", 0, c, None, <<>>, NoPid, {})
    /\ UNCHANGED <<dicts, descriptors, held, connVars, running, launched, closed, retryVars, sessVars, gwVars, exitVars, dataVars>>

BuilderCustomProperty(key, value) ==
    /\ dicts' = [dicts EXCEPT ![builder.custom_properties] = Put(@, key, value)]
    /\ last' = Call("builder.custom_property", 0, <<key, value>>, None, <<>>, NoPid, {})
    /\ UNCHANGED <<descriptors, builder, held, connVars, running, launched, closed, retryVars, sessVars, gwVars, exitVars, dataVars>>

BuilderCustomProperties(props) ==
    /\ dicts' = [dicts EXCEPT ![builder.custom_properties] = Update(@, props)]
    /\ last' = Call("builder.custom_properties", 0, props, None, <<>>, NoPid, {})
    /\ UNCHANGED <<descriptors, builder, held, connVars, running, launched, closed, retryVars, sessVars, gwVars, exitVars, dataVars>>

\* DatabaseDescriptorBuilder.build: the constructor, with the builder's dict.
Build ==
    /\ Room(1)
    /\ UNCHANGED <<builder, held>>
    /\ MetaStep("build", None,
                NewDescriptor(dicts, builder.comment, builder.custom_properties))

\* with_comment: the constructor, with the dict of the receiver.
WithComment(i, c) ==
    /\ Room(1)
    /\ UNCHANGED <<builder, held>>
    /\ MetaStep("with_comment", i, NewDescriptor(dicts, c, descriptors[i]._custom_properties))

\* with_custom_property / with_custom_properties: the constructor, with a
\* changed copy of the dict of the receiver.
WithCustomProperty(i, key, value) ==
    /\ Room(1)
    /\ UNCHANGED <<builder, held>>
    /\ MetaStep("with_custom_property", i,
                NewDescriptor(Append(dicts, Put(custom_properties(i), key, value)),
                              comment(i), Len(dicts) + 1))

WithCustomProperties(i, props) ==
    /\ Room(2)
    /\ UNCHANGED <<builder, held>>
    /\ MetaStep("with_custom_properties", i,
                NewDescriptor(Append(dicts, Update(custom_properties(i), props)),
                              comment(i), Len(dicts) + 1))

\* The caller writes into the dict the custom_properties property returned:
\* a copy, which nothing else holds.
MutateReturned(i, key, value) ==
    /\ last' = Call("custom_properties[key] = value", 0, i,
                    Put(custom_properties(i), key, value), <<>>, NoPid, {})
    /\ UNCHANGED <<metaVars, connVars, running, launched, closed, retryVars, sessVars, gwVars, exitVars, dataVars>>

\* The caller writes into a dict it passed to the constructor.
MutateHeld(id, key, value) ==
    /\ id \in held
    /\ dicts' = [dicts EXCEPT ![id] = Put(@, key, value)]
    /\ last' = Call("props[key] = value", 0, id, None, <<>>, NoPid, {})
    /\ UNCHANGED <<descriptors, builder, held, connVars, running, launched, closed, retryVars, sessVars, gwVars, exitVars, dataVars>>

NextMeta ==
    \/ \E c \in Comments, props \in PropDicts : Constructor(c, props)
    \/ \E c \in Comments : BuilderComment(c)
    \/ \E key \in Keys, value \in Values : BuilderCustomProperty(key, value)
    \/ \E props \in PropDicts : BuilderCustomProperties(props)
    \/ Build
    \/ \E i \in DOMAIN descriptors, c \in Comments : WithComment(i, c)
    \/ \E i \in DOMAIN descriptors, key \in Keys, value \in Values :
          WithCustomProperty(i, key, value)
    \/ \E i \in DOMAIN descriptors, props \in PropDicts : WithCustomProperties(i, props)
    \/ \E i \in DOMAIN descriptors, key \in Keys, value \in Values :
          MutateReturned(i, key, value)
    \/ \E id \in DOMAIN dicts, key \in Keys, value \in Values : MutateHeld(id, key, value)

SpecMeta == Init /\ [][NextMeta]_vars

\* ------------------------------------------------------ module-level session
\* pyfluss.connect(), pyfluss.disconnect() and pyfluss.get_connection(): the
\* module keeps the connection made last in _global_connection.  The
\* connections pyfluss.connect() constructs are 1..constructed.

\* The fields of every connection after a step that leaves F[c] in c.
SetAllFields(F) ==
    /\ _gateway' = [c \in Conns |-> F[c].gateway]
    /\ _java_process' = [c \in Conns |-> F[c].java_process]
    /\ _java_app' = [c \in Conns |-> F[c].java_app]
    /\ _java_connection' = [c \in Conns |-> F[c].java_connection]
    /\ _is_connected' = [c \in Conns |-> F[c].is_connected]

\* "if _global_connection: _global_connection.close()": what the close leaves
\* of the connection g and of the processes; nothing when there is none.
\* FlussConnection defines neither __bool__ nor __len__, so any connection
\* object is true.
CloseGlobal(g, alive, t) ==
    IF g = NoConn
    THEN [fields |-> NewFields, exited |-> {}, remote |-> <<>>, signalled |-> {},
          raised |-> {}]
    ELSE CloseFields(Fields(g), alive, t)

\* The outcomes the teardown steps of that close can have.
GlobalChoices(g, alive) ==
    IF g = NoConn THEN {[jclose |-> TRUE, shutdown |-> TRUE, wait |-> TRUE]}
    ELSE TeardownChoices(Fields(g), alive)

\* pyfluss.connect(): close the previous global connection if any, construct
\* a new FlussConnection, store it in _global_connection, and connect() it;
\* a ConnectionError from connect() leaves the new connection stored.
ModuleConnect ==
    /\ constructed < NumConns
    /\ launched < MaxProcs
    /\ UNCHANGED <<retryVars, dataVars, metaVars, gwVars, python>>
    /\ \E t0 \in GlobalChoices(_global_connection, running) :
         LET g == _global_connection
             r == CloseGlobal(g, running, t0)
             alive == running \ r.exited
             new == constructed + 1
         IN \E x \in ConnectChoices(Fields(new), alive, launched + 1) :
              LET k == ConnectCall(Fields(new), alive, launched + 1, x.o, x.pk, x.t)
                  F == [c \in Conns |-> IF c = new THEN k.fields
                                        ELSE IF c = g THEN r.fields ELSE Fields(c)]
              IN /\ SetAllFields(F)
                 /\ running' = k.alive
                 /\ launched' = IF k.started = NoPid THEN launched ELSE k.started
                 /\ closed' = IF g # NoConn /\ is_connected(g) /\ ~FieldsConnected(r.fields)
                               THEN closed \cup {g} ELSE closed
                 /\ _global_connection' = new
                 /\ constructed' = new
                 /\ atexit' = IF k.registered THEN Append(atexit, CloseHook(new)) ELSE atexit
                 /\ last' = Call("pyfluss.connect", new, g, k.result,
                                 r.remote \o k.remote, k.started,
                                 r.signalled \cup k.signalled)

\* pyfluss.disconnect(): close the global connection if any and forget it.
ModuleDisconnect ==
    /\ UNCHANGED <<launched, constructed, retryVars, dataVars, metaVars, gwVars, exitVars>>
    /\ \E t0 \in GlobalChoices(_global_connection, running) :
         LET g == _global_connection
             r == CloseGlobal(g, running, t0)
             F == [c \in Conns |-> IF c = g THEN r.fields ELSE Fields(c)]
         IN /\ SetAllFields(F)
            /\ running' = running \ r.exited
            /\ closed' = IF g # NoConn /\ is_connected(g) /\ ~FieldsConnected(r.fields)
                          THEN closed \cup {g} ELSE closed
            /\ _global_connection' = NoConn
            /\ last' = Call("pyfluss.disconnect", g, r.raised, "returned",
                            r.remote, NoPid, r.signalled)

\* pyfluss.get_connection(): the global connection, or None.
ModuleGetConnection ==
    /\ last' = Call("pyfluss.get_connection", _global_connection, None,
                    _global_connection, <<>>, NoPid, {})
    /\ UNCHANGED <<connVars, running, launched, closed, retryVars, otherVars>>

NextSession ==
    \/ ModuleConnect
    \/ ModuleDisconnect
    \/ ModuleGetConnection

SpecSession == Init /\ [][NextSession]_vars

\* ------------------------------------------------- shared gateway, catalogs
\* java_gateway.get_gateway() keeps one bridge client and one gateway process
\* for the module; Catalog.create and the reads built from a catalog use it.

\* The module state of java_gateway as one record.
Gateway ==
    [gateway |-> _gateway_module, proc |-> _gateway_proc, servers |-> servers,
     atexit |-> atexit, handlers |-> handlers]

SetGateway(g) ==
    /\ _gateway_module' = g.gateway
    /\ _gateway_proc' = g.proc
    /\ servers' = g.servers
    /\ atexit' = g.atexit
    /\ handlers' = g.handlers

\* atexit.register(_cleanup_gateway)
CleanupHook == [fn |-> "_cleanup_gateway", obj |-> NoConn]

\* get_gateway() up to time.sleep(2): the process pid is launched and kept in
\* _gateway_proc.
LaunchStep(g, pid) ==
    [g EXCEPT !.proc = pid, !.servers = g.servers \cup {pid}]

\* get_gateway() after time.sleep(2): the bridge client is made and kept,
\* _cleanup_gateway is registered with atexit, and _signal_handler is
\* installed for SIGTERM and SIGINT.
FinishStep(g) ==
    [g EXCEPT !.gateway = "gateway", !.atexit = Append(g.atexit, CleanupHook),
              !.handlers = TRUE]

\* How one get_gateway() can go when no client is cached: in test mode the
\* client is made without a process; else launch_gateway_server_process
\* raises (no Java executable, Popen fails) or the process is launched.
GatewayOutcomes == {"test_mode", "launch_fails", "launched"}

\* get_gateway() with the module state g: the state afterwards, whether it
\* raised, and the process it launched.
GetGatewayCall(g, pid, o) ==
    IF g.gateway # None
    THEN [state |-> g, raised |-> FALSE, started |-> NoPid]
    ELSE IF o = "test_mode"
    THEN [state |-> [g EXCEPT !.gateway = "gateway"], raised |-> FALSE, started |-> NoPid]
    ELSE IF o = "launch_fails"
    THEN [state |-> g, raised |-> TRUE, started |-> NoPid]
    ELSE [state |-> FinishStep(LaunchStep(g, pid)), raised |-> FALSE, started |-> pid]

\* The outcomes of get_gateway() that can differ.
GatewayChoices(g) ==
    IF g.gateway # None THEN {"launched"}
    ELSE IF launched < MaxProcs THEN GatewayOutcomes
    ELSE GatewayOutcomes \ {"launched"}

\* _cleanup_gateway(): shut the client down (a failure is swallowed) and
\* forget it; terminate the process, wait up to 5 s, kill it when the wait
\* raises, and forget the handle.
CleanupGatewayCall(g) ==
    [g EXCEPT !.gateway = None, !.proc = NoPid, !.servers = g.servers \ {g.proc}]

\* The values of the max-workers option.
WorkerValues == {-1, 0, 1, 2}
CatalogOptions == {Unset} \cup {[set |-> TRUE, value |-> v] : v \in WorkerValues}

\* FlussTableRead._get_max_workers: int(catalog_options.get("max-workers", 1)),
\* rejected when not positive.
_get_max_workers(options) ==
    LET max_workers == IF options.set THEN options.value ELSE 1
    IN IF max_workers <= 0 THEN [raised |-> TRUE, value |-> max_workers]
       ELSE [raised |-> FALSE, value |-> max_workers]

\* What a call on catalogs reports: its options, how many times it called
\* get_gateway(), the remote calls it issued and the process it launched.
CatalogCall(op, options, gets, result, remote, started) ==
    Call(op, NoConn, [max_workers |-> options, get_gateway |-> gets], result,
         remote, started, {})

\* Whether the remote side answers the calls of one operation.
RemoteOutcomes == {"ok", "remote_fails"}

\* Catalog.create(catalog_options): to_j_catalog_context calls get_gateway(),
\* fills a HashMap with the options and makes the context; then
\* get_gateway() again and createCatalog.  The options are not looked at.
CatalogCreate(options) ==
    /\ UNCHANGED <<connVars, running, closed, retryVars, dataVars, metaVars, sessVars,
                   gateway_pc, python>>
    /\ \E o \in GatewayChoices(Gateway), ro \in RemoteOutcomes :
         LET k == GetGatewayCall(Gateway, launched + 1, o)
             puts == IF options.set THEN <<R("HashMap.put")>> ELSE <<>>
             all == <<R("HashMap")>> \o puts
                      \o <<R("MockCatalogContext.create"), R("createCatalog")>>
         IN /\ SetGateway(k.state)
            /\ launched' = IF k.started = NoPid THEN launched ELSE k.started
            /\ IF k.raised
               THEN /\ UNCHANGED catalog
                    /\ last' = CatalogCall("Catalog.create", options, 1,
                                           "EnvironmentError", <<>>, k.started)
               ELSE IF ro = "remote_fails"
               THEN /\ UNCHANGED catalog
                    /\ last' = CatalogCall("Catalog.create", options, 1,
                                           "Py4JError", <<R("HashMap")>>, k.started)
               ELSE /\ catalog' = [made |-> TRUE, options |-> options]
                    /\ last' = CatalogCall("Catalog.create", options, 2,
                                           "Catalog", all, k.started)

\* catalog.get_table(identifier).new_read_builder().new_read(): getTable;
\* get_gateway() and createReadBuilder with the keys and the row type;
\* newRead, executeFilter and readType; then FlussTableRead.__init__, which
\* evaluates get_gateway() before _get_max_workers(catalog_options) and only
\* then calls createParallelBytesReader.
NewRead ==
    /\ catalog.made
    /\ UNCHANGED <<connVars, running, closed, retryVars, dataVars, metaVars, sessVars,
                   gateway_pc, python, catalog>>
    /\ \E o \in GatewayChoices(Gateway), ro \in RemoteOutcomes :
         LET k == GetGatewayCall(Gateway, launched + 1, o)
             w == _get_max_workers(catalog.options)
             first == <<R("getTable")>>
             built == first \o <<R("createReadBuilder"), R("primaryKeys"),
                                 R("partitionKeys"), R("rowType"), R("newRead"),
                                 R("executeFilter"), R("readType")>>
         IN IF ro = "remote_fails"
            THEN /\ UNCHANGED <<gwVars, exitVars, launched>>
                 /\ last' = CatalogCall("new_read", catalog.options, 0,
                                        "Py4JError", first, NoPid)
            ELSE /\ SetGateway(k.state)
                 /\ launched' = IF k.started = NoPid THEN launched ELSE k.started
                 /\ IF k.raised
                    THEN last' = CatalogCall("new_read", catalog.options, 1,
                                             "EnvironmentError", first, k.started)
                    ELSE IF w.raised
                    THEN last' = CatalogCall("new_read", catalog.options, 2,
                                             "ValueError", built, k.started)
                    ELSE last' = CatalogCall("new_read", catalog.options, 2,
                                             "FlussTableRead",
                                             built \o <<R("createParallelBytesReader")>>,
                                             k.started)

\* get_gateway() called on its own, as one step.
GetGateway ==
    /\ UNCHANGED <<connVars, running, closed, retryVars, dataVars, metaVars, sessVars,
                   gateway_pc, python, catalog>>
    /\ \E o \in GatewayChoices(Gateway) :
         LET k == GetGatewayCall(Gateway, launched + 1, o)
         IN /\ SetGateway(k.state)
            /\ launched' = IF k.started = NoPid THEN launched ELSE k.started
            /\ last' = CatalogCall("get_gateway", Unset, 1,
                                   IF k.raised THEN "EnvironmentError" ELSE "gateway",
                                   <<>>, k.started)

\* _cleanup_gateway() called on its own.
CleanupGateway ==
    /\ UNCHANGED <<connVars, running, launched, closed, retryVars, dataVars, metaVars,
                   sessVars, gateway_pc, python, catalog, atexit, handlers>>
    /\ LET g == CleanupGatewayCall(Gateway)
       IN /\ _gateway_module' = g.gateway
          /\ _gateway_proc' = g.proc
          /\ servers' = g.servers
          /\ last' = Call("_cleanup_gateway", NoConn, None, "returned",
                          IF _gateway_module # None THEN <<R("shutdown")>> ELSE <<>>,
                          NoPid, IF _gateway_proc = NoPid THEN {} ELSE {_gateway_proc})

NextCatalog ==
    \/ \E options \in CatalogOptions : CatalogCreate(options)
    \/ NewRead
    \/ GetGateway
    \/ CleanupGateway

SpecCatalog == Init /\ [][NextCatalog]_vars

\* ------------------------------------------------------------ process exit
\* The Python process ends by returning from the script or sys.exit (the
\* atexit callbacks run, last registered first) or by a signal.  The
\* callbacks are FlussConnection.close, registered by each connect() that
\* succeeded, and _cleanup_gateway, registered by get_gateway() after its
\* sleep together with the handler for SIGTERM and SIGINT.
\* FlussConnection installs no signal handler.

\* The main thread is running user code, outside get_gateway().
Up == python = "up" /\ gateway_pc = "idle"

Signals == {"SIGTERM", "SIGINT"}

\* get_gateway() with no client cached, outside test mode, until it sleeps.
GetGatewayLaunch ==
    /\ Up
    /\ _gateway_module = None
    /\ launched < MaxProcs
    /\ SetGateway(LaunchStep(Gateway, launched + 1))
    /\ launched' = launched + 1
    /\ gateway_pc' = "sleeping"
    /\ last' = Call("get_gateway", NoConn, "launch", "sleeping", <<>>, launched + 1, {})
    /\ UNCHANGED <<connVars, running, closed, retryVars, dataVars, metaVars, sessVars,
                   python, catalog>>

\* get_gateway() from the end of its sleep to its return.
GetGatewayFinish ==
    /\ python = "up"
    /\ gateway_pc = "sleeping"
    /\ SetGateway(FinishStep(Gateway))
    /\ gateway_pc' = "idle"
    /\ last' = Call("get_gateway", NoConn, "finish", "gateway", <<>>, NoPid, {})
    /\ UNCHANGED <<connVars, running, launched, closed, retryVars, dataVars, metaVars,
                   sessVars, python, catalog>>

\* A signal arrives while the process is up.  With _signal_handler installed:
\* _cleanup_gateway() and exit(0), which raises SystemExit, so the atexit
\* callbacks run.  Without it SIGTERM ends the process at once and SIGINT
\* raises KeyboardInterrupt, which ends the script and runs the callbacks.
Signal(sig) ==
    /\ python = "up"
    /\ gateway_pc' = "idle"
    /\ UNCHANGED <<connVars, running, launched, closed, retryVars, dataVars, metaVars,
                   sessVars, catalog, atexit, handlers>>
    /\ IF handlers
       THEN LET g == CleanupGatewayCall(Gateway)
            IN /\ _gateway_module' = g.gateway
               /\ _gateway_proc' = g.proc
               /\ servers' = g.servers
               /\ python' = "exiting"
               /\ last' = Call("signal", NoConn, sig, "_signal_handler", <<>>, NoPid,
                               IF _gateway_proc = NoPid THEN {} ELSE {_gateway_proc})
       ELSE /\ UNCHANGED <<_gateway_module, _gateway_proc, servers>>
            /\ python' = IF sig = "SIGTERM" THEN "gone" ELSE "exiting"
            /\ last' = Call("signal", NoConn, sig, "default", <<>>, NoPid, {})

\* The script ends or calls sys.exit().
Exit ==
    /\ Up
    /\ python' = "exiting"
    /\ last' = Call("exit", NoConn, None, "exiting", <<>>, NoPid, {})
    /\ UNCHANGED <<connVars, running, launched, closed, retryVars, dataVars, metaVars,
                   sessVars, gwVars, atexit>>

\* The interpreter runs the callback registered last and drops it.
RunHook ==
    /\ python = "exiting"
    /\ atexit # <<>>
    /\ atexit' = SubSeq(atexit, 1, Len(atexit) - 1)
    /\ UNCHANGED <<launched, retryVars, dataVars, metaVars, sessVars, gateway_pc, handlers,
                   python, catalog>>
    /\ LET hook == atexit[Len(atexit)]
       IN IF hook = CleanupHook
          THEN LET g == CleanupGatewayCall(Gateway)
               IN /\ _gateway_module' = g.gateway
                  /\ _gateway_proc' = g.proc
                  /\ servers' = g.servers
                  /\ last' = Call("atexit", NoConn, hook.fn, "returned", <<>>, NoPid,
                                  IF _gateway_proc = NoPid THEN {} ELSE {_gateway_proc})
                  /\ UNCHANGED <<connVars, running, closed>>
          ELSE \E o \in TeardownChoices(Fields(hook.obj), running) :
                 LET r == CloseFields(Fields(hook.obj), running, o)
                 IN /\ SetFields(hook.obj, r.fields)
                    /\ running' = running \ r.exited
                    /\ closed' = IF is_connected(hook.obj) /\ ~FieldsConnected(r.fields)
                                  THEN closed \cup {hook.obj} ELSE closed
                    /\ last' = Call("atexit", hook.obj, hook.fn, "returned", r.remote,
                                    NoPid, r.signalled)
                    /\ UNCHANGED <<_gateway_module, _gateway_proc, servers>>

\* Every callback has run: the process is gone.
Gone ==
    /\ python = "exiting"
    /\ atexit = <<>>
    /\ python' = "gone"
    /\ last' = Call("exit", NoConn, None, "gone", <<>>, NoPid, {})
    /\ UNCHANGED <<connVars, running, launched, closed, retryVars, dataVars, metaVars,
                   sessVars, gwVars, atexit>>

UpConnect(c) == Up /\ Connect(c)
UpClose(c) == Up /\ Close(c)

NextExit ==
    \/ \E c \in Conns : UpConnect(c)
    \/ \E c \in Conns : UpClose(c)
    \/ GetGatewayLaunch
    \/ GetGatewayFinish
    \/ \E sig \in Signals : Signal(sig)
    \/ Exit
    \/ RunHook
    \/ Gone

SpecExit == Init /\ [][NextExit]_vars

\* ------------------------------------------------------------ remote engine
\* The engine reached over the bridge, as a keyed table store: databases,
\* tables with their primary key, and for each table at most one row per
\* key.  A table is [db, name, pk, columns]; a stored row is
\* [db, name, key, row].

DbNames == {"tmp_db", "other_db"}
TableNames == {"test_table"}

HasTable(s, db, name) == \E t \in s.tables : t.db = db /\ t.name = name
TablesOf(s, db) == {t.name : t \in {u \in s.tables : u.db = db}}

\* What the engine answers to a request, and how it changes: ok is whether it
\* succeeds, value what it returns.
Remote(s, req) ==
    CASE req.call = "createDatabase" ->
           IF req.db \in s.dbs
           THEN [store |-> s, ok |-> req.ignore, value |-> {}]
           ELSE [store |-> [s EXCEPT !.dbs = s.dbs \cup {req.db}], ok |-> TRUE, value |-> {}]
      [] req.call = "dropDatabase" ->
           IF req.db \notin s.dbs
           THEN [store |-> s, ok |-> req.ignore, value |-> {}]
           ELSE IF TablesOf(s, req.db) # {} /\ ~req.cascade
           THEN [store |-> s, ok |-> FALSE, value |-> {}]
           ELSE [store |-> [dbs |-> s.dbs \ {req.db},
                            tables |-> {t \in s.tables : t.db # req.db},
                            rows |-> {r \in s.rows : r.db # req.db}],
                 ok |-> TRUE, value |-> {}]
      [] req.call = "createTable" ->
           IF req.db \notin s.dbs
           THEN [store |-> s, ok |-> FALSE, value |-> {}]
           ELSE IF HasTable(s, req.db, req.name)
           THEN [store |-> s, ok |-> req.ignore, value |-> {}]
           ELSE [store |-> [s EXCEPT !.tables = s.tables \cup
                                       {[db |-> req.db, name |-> req.name, pk |-> req.pk,
                                         columns |-> req.columns]}],
                 ok |-> TRUE, value |-> {}]
      [] req.call = "dropTable" ->
           IF ~HasTable(s, req.db, req.name)
           THEN [store |-> s, ok |-> req.ignore, value |-> {}]
           ELSE [store |-> [s EXCEPT !.tables = {t \in s.tables :
                                                   ~(t.db = req.db /\ t.name = req.name)},
                                     !.rows = {r \in s.rows :
                                                 ~(r.db = req.db /\ r.name = req.name)}],
                 ok |-> TRUE, value |-> {}]
      [] req.call = "listDatabases" ->
           [store |-> s, ok |-> TRUE, value |-> s.dbs]
      [] req.call = "listTables" ->
           [store |-> s, ok |-> req.db \in s.dbs, value |-> TablesOf(s, req.db)]

\* The stores without rows: every table lies in a database.
Stores ==
    {s \in [dbs : SUBSET DbNames,
            tables : SUBSET [db : DbNames, name : TableNames, pk : {<<"key">>},
                             columns : {<<"key", "value">>}],
            rows : {{}}] :
        \A t \in s.tables : t.db \in s.dbs}

\* What becomes of one attempt: the engine answers within the timeout; the
\* local wait times out although the engine carried the request out; or it
\* times out and the request never took effect.
AttemptFates == {"answered", "timeout_applied", "timeout_lost"}
\* _handle_async_operation_with_retry(operation_func, max_retries: int = 3)
DefaultRetries == 3
Answered == [k \in 1..DefaultRetries |-> "answered"]

\* What attempt a + 1 meets, given its fate and the engine's answer.
Met(fate, ok) ==
    IF fate # "answered" THEN "get_times_out"
    ELSE IF ok THEN "get_returns" ELSE "get_remote_failure"

\* _handle_async_operation_with_retry run to its end on the request req,
\* from attempt a (0-based) of m, with the fates of the attempts: the store
\* afterwards, whether the consolidated error was raised, the value
\* returned and the number of remote calls issued.
RECURSIVE RetryRun(_, _, _, _, _)
RetryRun(s, req, fates, a, m) ==
    IF ~LoopRuns(a, m)
    THEN [store |-> s, raised |-> TRUE, value |-> {}, calls |-> a]
    ELSE LET r == Remote(s, req)
             s1 == IF fates[a + 1] = "timeout_lost" THEN s ELSE r.store
             t == TryAttempt(Met(fates[a + 1], r.ok), a + 1)
         IN IF t.raised
            THEN RetryRun(s1, req, fates, a + 1, m)
            ELSE [store |-> s1, raised |-> FALSE, value |-> r.value, calls |-> a + 1]

\* The remote calls of n attempts of one request.
Attempts(req, n) == [i \in 1..n |-> R(req.call)]

\* An administrative operation of FlussConnection on connection c:
\* _ensure_connected (ConnectionError propagates), then inside try
\* _get_connection, getAdmin and the request under retry; any exception
\* there gives the failure value (for a list operation the empty list,
\* here the empty set).  sent is the request, given what the caller passed,
\* existed whether the target existed, fates what becomes of the attempts,
\* answer what the engine answers to the first of them, invalid whether an
\* argument was refused before any request.
CallArg(arg, req, existed, fates, invalid) ==
    [given |-> arg, sent |-> req, existed |-> existed, fates |-> fates,
     answer |-> Remote(store, req).ok, invalid |-> invalid]
ConnectionCall(c, op, arg, req, existed, fates) ==
    /\ UNCHANGED <<running, launched, closed, retryVars, metaVars, sessVars,
                   gwVars, exitVars>>
    /\ IF EnsureConnectedRaises(Fields(c))
       THEN /\ UNCHANGED <<connVars, dataVars>>
            /\ last' = Call(op, c, CallArg(arg, req, existed, fates, FALSE),
                            "ConnectionError", <<>>, NoPid, {})
       ELSE LET g == GetConnection(Fields(c), TRUE)
                run == RetryRun(store, req, fates, 0, DefaultRetries)
            IN /\ SetFields(c, g.fields)
               /\ store' = run.store
               /\ UNCHANGED handle
               /\ last' = Call(op, c, CallArg(arg, req, existed, fates, FALSE),
                               IF op \in {"list_databases", "list_tables"}
                               THEN (IF run.raised THEN {} ELSE run.value)
                               ELSE IF run.raised THEN Failure(op) ELSE Success(op),
                               g.remote \o <<R("getAdmin")>> \o Attempts(req, run.calls),
                               NoPid, {})

\* An operation of the Admin obtained from connection c: the request under
\* the connection's retry; the consolidated RuntimeError propagates.
AdminCall(c, op, arg, req, existed, fates) ==
    /\ is_connected(c)
    /\ UNCHANGED <<connVars, running, launched, closed, retryVars, metaVars,
                   sessVars, gwVars, exitVars>>
    /\ LET run == RetryRun(store, req, fates, 0, DefaultRetries)
       IN /\ store' = run.store
          /\ UNCHANGED handle
          /\ last' = Call(op, c, [given |-> arg, sent |-> req, existed |-> existed],
                          IF run.raised THEN "RuntimeError" ELSE "True",
                          Attempts(req, run.calls), NoPid, {})

\* FlussConnection.drop_database(database_name, if_exists):
\* admin.dropDatabase(database_name, False, False).
DropDatabase(c, database_name, if_exists) ==
    /\ database_name \in DbNames
    /\ ConnectionCall(c, "drop_database", [if_exists |-> if_exists],
                      [call |-> "dropDatabase", db |-> database_name,
                       cascade |-> FALSE, ignore |-> FALSE],
                      database_name \in store.dbs, Answered)

\* FlussConnection.drop_table(database_name, table_name, if_exists):
\* admin.dropTable(table_path, False).
DropTable(c, database_name, table_name, if_exists) ==
    /\ database_name \in DbNames
    /\ ConnectionCall(c, "drop_table", [if_exists |-> if_exists],
                      [call |-> "dropTable", db |-> database_name, name |-> table_name,
                       ignore |-> FALSE],
                      HasTable(store, database_name, table_name), Answered)

\* Admin.drop_database(database_name, cascade, if_exists):
\* dropDatabase(database_name, cascade, if_exists).
AdminDropDatabase(c, database_name, cascade, if_exists) ==
    /\ database_name \in DbNames
    /\ AdminCall(c, "Admin.drop_database", [if_exists |-> if_exists],
                 [call |-> "dropDatabase", db |-> database_name,
                  cascade |-> cascade, ignore |-> if_exists],
                 database_name \in store.dbs, Answered)

\* Admin.drop_table(table_path, if_exists) with table_path 'database.table':
\* dropTable(java_table_path, not if_exists).
AdminDropTable(c, database_name, table_name, if_exists) ==
    /\ database_name \in DbNames
    /\ AdminCall(c, "Admin.drop_table", [if_exists |-> if_exists],
                 [call |-> "dropTable", db |-> database_name, name |-> table_name,
                  ignore |-> ~if_exists],
                 HasTable(store, database_name, table_name), Answered)

\* Connection 1 is connected and the engine holds any databases and tables.
InitDrop ==
    /\ _gateway = [c \in Conns |-> IF c = 1 THEN "gateway" ELSE None]
    /\ _java_process = [c \in Conns |-> IF c = 1 THEN 1 ELSE NoPid]
    /\ _java_app = [c \in Conns |-> IF c = 1 THEN "entry_point" ELSE None]
    /\ _java_connection = [c \in Conns |-> IF c = 1 THEN "connection" ELSE None]
    /\ _is_connected = [c \in Conns |-> c = 1]
    /\ running = {1}
    /\ launched = 1
    /\ closed = {}
    /\ last = Call("init", 0, None, None, <<>>, NoPid, {})
    /\ RetryIdle
    /\ MetaIdle /\ SessIdle /\ GatewayIdle
    /\ store \in Stores
    /\ handle = [h \in Handles |-> NoHandle]

NextDrop ==
    \/ \E c \in Conns, db \in DbNames, e \in BOOLEAN : DropDatabase(c, db, e)
    \/ \E c \in Conns, db \in DbNames, t \in TableNames, e \in BOOLEAN :
         DropTable(c, db, t, e)
    \/ \E c \in Conns, db \in DbNames, cascade \in BOOLEAN, e \in BOOLEAN :
         AdminDropDatabase(c, db, cascade, e)
    \/ \E c \in Conns, db \in DbNames, t \in TableNames, e \in BOOLEAN :
         AdminDropTable(c, db, t, e)

SpecDrop == InitDrop /\ [][NextDrop]_vars

\* ------------------------------------------------------ local type mapping
\* FlussConnection._map_type_to_fluss_datatype: from the name of a column
\* type to a constructor of the engine's DataTypes.  Names are sequences of
\* characters.

UpperChar(ch) ==
    IF \E i \in 1..Len(LowerCase) : LowerCase[i] = ch
    THEN UpperCase[CHOOSE i \in 1..Len(LowerCase) : LowerCase[i] = ch]
    ELSE ch
upper(s) == [i \in 1..Len(s) |-> UpperChar(s[i])]
startswith(s, prefix) == Len(s) >= Len(prefix) /\ SubSeq(s, 1, Len(prefix)) = prefix

\* The names the source compares with.
N_STRING == <<"S", "T", "R", "I", "N", "G">>
N_VARCHAR == <<"V", "A", "R", "C", "H", "A", "R">>
N_INT64 == <<"I", "N", "T", "6", "4">>
N_BIGINT == <<"B", "I", "G", "I", "N", "T">>
N_LONG == <<"L", "O", "N", "G">>
N_INT32 == <<"I", "N", "T", "3", "2">>
N_INT == <<"I", "N", "T">>
N_INTEGER == <<"I", "N", "T", "E", "G", "E", "R">>
N_FLOAT64 == <<"F", "L", "O", "A", "T", "6", "4">>
N_DOUBLE == <<"D", "O", "U", "B", "L", "E">>
N_FLOAT == <<"F", "L", "O", "A", "T">>
N_FLOAT32 == <<"F", "L", "O", "A", "T", "3", "2">>
N_BOOL == <<"B", "O", "O", "L">>
N_BOOLEAN == <<"B", "O", "O", "L", "E", "A", "N">>
N_TIMESTAMP == <<"T", "I", "M", "E", "S", "T", "A", "M", "P">>
N_DECIMAL == <<"D", "E", "C", "I", "M", "A", "L">>

DigitChars == <<"0", "1", "2", "3", "4", "5", "6", "7", "8", "9">>
IsDigit(ch) == \E i \in 1..Len(DigitChars) : DigitChars[i] = ch
DigitValue(ch) == (CHOOSE i \in 1..Len(DigitChars) : DigitChars[i] = ch) - 1
\* int(text) for a run of digits.
RECURSIVE int(_)
int(text) ==
    IF text = <<>> THEN 0
    ELSE 10 * int(SubSeq(text, 1, Len(text) - 1)) + DigitValue(text[Len(text)])
\* str(n) for a natural number.
RECURSIVE Digits(_)
Digits(n) ==
    IF n < 10 THEN <<DigitChars[n + 1]>>
    ELSE Digits(n \div 10) \o <<DigitChars[(n % 10) + 1]>>

\* The first position at or after i of s that holds no digit (no blank).
RECURSIVE DigitRun(_, _)
DigitRun(s, i) == IF i <= Len(s) /\ IsDigit(s[i]) THEN DigitRun(s, i + 1) ELSE i
RECURSIVE BlankRun(_, _)
BlankRun(s, i) == IF i <= Len(s) /\ s[i] = " " THEN BlankRun(s, i + 1) ELSE i

\* re.match(r'DECIMAL\((\d+),?\s*(\d+)?\)', col_type): whether it matches
\* at the start of t, and the two groups (the second may be missing).
DecimalMatch(t) ==
    LET open == Len(N_DECIMAL) + 1
        d1 == DigitRun(t, open + 1)
        c == IF d1 <= Len(t) /\ t[d1] = "," THEN d1 + 1 ELSE d1
        b == BlankRun(t, c)
        d2 == DigitRun(t, b)
    IN IF /\ startswith(t, N_DECIMAL \o <<"(">>)
          /\ d1 > open + 1
          /\ d2 <= Len(t)
          /\ t[d2] = ")"
       THEN [matched |-> TRUE, group1 |-> SubSeq(t, open + 1, d1 - 1),
             group2 |-> SubSeq(t, b, d2 - 1)]
       ELSE [matched |-> FALSE, group1 |-> <<>>, group2 |-> <<>>]

\* A constructor of DataTypes with its arguments.
DataType(ctor, args) == [ctor |-> ctor, args |-> args]

\* INT64 taken for a 32-bit type.
MapInt64AsInt(col_type) ==
    IF upper(col_type) \in {N_INT64, N_INT32, N_INT, N_INTEGER}
    THEN DataType("INT", <<>>) ELSE DataType("STRING", <<>>)
_map_type_to_fluss_datatype(col_type) ==
    LET t == upper(col_type)
        m == DecimalMatch(t)
    IN IF t \in {N_STRING, N_VARCHAR} THEN DataType("STRING", <<>>)
       ELSE IF t \in {N_INT64, N_BIGINT, N_LONG} THEN DataType("BIGINT", <<>>)
       ELSE IF t \in {N_INT32, N_INT, N_INTEGER} THEN DataType("INT", <<>>)
       ELSE IF t \in {N_FLOAT64, N_DOUBLE, N_FLOAT} THEN DataType("DOUBLE", <<>>)
       ELSE IF t \in {N_FLOAT32} THEN DataType("FLOAT", <<>>)
       ELSE IF t \in {N_BOOL, N_BOOLEAN} THEN DataType("BOOLEAN", <<>>)
       ELSE IF startswith(t, N_TIMESTAMP) THEN DataType("TIMESTAMP", <<3>>)
       ELSE IF startswith(t, N_DECIMAL)
       THEN IF m.matched
            THEN DataType("DECIMAL",
                          <<int(m.group1), IF m.group2 # <<>> THEN int(m.group2) ELSE 0>>)
            ELSE DataType("DECIMAL", <<10, 2>>)
       ELSE DataType("STRING", <<>>)

\* The type names tried: the names above and others, as written and in
\* lower case, and DECIMAL(p,s) and DECIMAL(p, s) for small p and s.
MaxPrecision == 11
MaxScale == 2
DecimalName(p, s, blank) ==
    N_DECIMAL \o <<"(">> \o Digits(p) \o <<",">> \o (IF blank THEN <<" ">> ELSE <<>>)
      \o Digits(s) \o <<")">>
GivenNames ==
    {N_STRING,
     N_VARCHAR,
     N_INT64,
     N_BIGINT,
     N_LONG,
     N_INT32,
     N_INT,
     N_INTEGER,
     N_FLOAT64,
     N_DOUBLE,
     N_FLOAT,
     N_FLOAT32,
     N_BOOL,
     N_BOOLEAN,
     N_TIMESTAMP,
     N_DECIMAL,
     <<"T", "I", "M", "E", "S", "T", "A", "M", "P", "(", "6", ")">>,
     <<"T", "I", "M", "E", "S", "T", "A", "M", "P", "_", "L", "T", "Z">>,
     <<"t", "i", "m", "e", "s", "t", "a", "m", "p", "[", "u", "s", "]">>,
     <<"D", "E", "C", "I", "M", "A", "L", "S">>,
     <<"d", "e", "c", "i", "m", "a", "l">>,
     <<"D", "e", "c", "i", "m", "a", "l", "(", "5", ")">>,
     <<"D", "E", "C", "I", "M", "A", "L", "(", "7", " ", "3", ")">>,
     <<"D", "E", "C", "I", "M", "A", "L", "(", " ", "5", ",", "2", ")">>,
     <<"D", "E", "C", "I", "M", "A", "L", "(", "5", ",", "2">>,
     <<"d", "e", "c", "i", "m", "a", "l", "1", "2", "8", "(", "1", "0", ",", " ", "2", ")">>,
     <<"D", "A", "T", "E">>,
     <<"B", "Y", "T", "E", "S">>,
     <<"b", "i", "n", "a", "r", "y">>,
     <<"I", "N", "T", "8">>,
     <<"T", "E", "X", "T">>,
     <<>>,
     <<"I", "n", "t", "6", "4">>,
     <<"s", "t", "r", "i", "n", "g">>,
     <<"d", "o", "u", "b", "l", "e">>,
     <<"B", "o", "o", "l">>,
     <<"f", "l", "o", "a", "t">>,
     <<"I", "N", "T", "S">>,
     <<"S", "T", "R", "I", "N", "G", "S">>,
     <<"U", "I", "N", "T", "3", "2">>,
     <<"L", "I", "S", "T", "<", "I", "N", "T", ">">>}
ColumnTypes ==
    GivenNames \cup {lower(n) : n \in GivenNames}
      \cup {DecimalName(p, s, blank) : p \in 1..MaxPrecision, s \in 0..MaxScale, blank \in BOOLEAN}

InitMap ==
    /\ Quiet
    /\ \E t \in ColumnTypes : last = Call("input", 0, t, None, <<>>, NoPid, {})

MapTypeToFlussDatatype ==
    /\ last.op = "input"
    /\ Observe("_map_type_to_fluss_datatype", last.arg,
               _map_type_to_fluss_datatype(last.arg))

SpecMap == InitMap /\ [][MapTypeToFlussDatatype]_vars

\* ------------------------------------------------------------------ writer
\* FlussDataWriter.  A Python value is its type and its str() text; a dict
\* is the sequence of its items in iteration order.
PyValue(py, v) == [py |-> py, v |-> v]
PyValues ==
    {PyValue("int", "1"), PyValue("int", "-7"), PyValue("bool", "True"),
     PyValue("float", "2.5"), PyValue("str", "test1"), PyValue("str", "7"),
     PyValue("NoneType", "None")}
ColumnNames == <<"key", "value", "date">>
MaxColumns == 2
MaxRows == 2

\* isinstance(value, int): bool is a subclass of int.
IsInstanceInt(value) == value.py \in {"int", "bool"}
IsInstanceFloat(value) == value.py = "float"
\* What arrives in the remote array cell.
JavaValue(java, v) == [java |-> java, v |-> v]
\* jvm.java.lang.Long(value): java.lang.Long has the constructors Long(long)
\* and Long(String); the bridge passes a Python bool as a Java boolean, for
\* which there is none.
LongRaises(value) == value.py # "int"

\* Every integer boxed, bool included.
EveryIntBoxed(value) ==
    IF IsInstanceInt(value) THEN [raised |-> FALSE, cell |-> JavaValue("Long", value.v)]
    ELSE IF IsInstanceFloat(value)
    THEN [raised |-> FALSE, cell |-> JavaValue("Double", value.v)]
    ELSE [raised |-> FALSE, cell |-> JavaValue("String", value.v)]
\* Every value sent as its text.
EncodeAsText(value) == [raised |-> FALSE, cell |-> JavaValue("String", value.v)]
\* The body of the loop over the values of a row.
EncodeValue(value) ==
    IF IsInstanceInt(value)
    THEN IF LongRaises(value)
         THEN [raised |-> TRUE, cell |-> None]
         ELSE [raised |-> FALSE, cell |-> JavaValue("Long", value.v)]
    ELSE IF IsInstanceFloat(value)
    THEN [raised |-> FALSE, cell |-> JavaValue("Double", value.v)]
    ELSE [raised |-> FALSE, cell |-> JavaValue("String", value.v)]

\* list(data.values()) and the array filled from it.
DictValues(data) == [i \in 1..Len(data) |-> data[i][2]]
EncodeRow(data) ==
    LET values == DictValues(data)
    IN [raised |-> \E i \in 1..Len(values) : EncodeValue(values[i]).raised,
        java_row |-> [i \in 1..Len(values) |-> EncodeValue(values[i]).cell]]

\* writeDataWithUpsert(list) as the bridge sees it.
Upsert(rows) == [call |-> "writeDataWithUpsert", rows |-> rows]
\* How the remote writer answers an upsert: the number of rows it wrote,
\* or an exception; "bridge_down" stands for a bridge that no longer
\* reaches it.
UpsertOutcomes == {"written", "raises"}

\* What a method of a writer or reader gives: the exception it raises (or
\* None) and the value it returns.
Raised(e) == [raised |-> e, value |-> None]
Returned(value) == [raised |-> None, value |-> value]
HasBeenClosed == "RuntimeError: has been closed"

\* A check that lets every call through.
CheckNothing(is_closed) == FALSE
\* _check_not_closed: whether it raises the RuntimeError.
_check_not_closed(is_closed) == is_closed

\* write_row(data) on a writer whose closed flag is is_closed.
WriteRowCall(is_closed, data, answer) ==
    LET e == EncodeRow(data)
    IN IF _check_not_closed(is_closed)
       THEN [result |-> Raised(HasBeenClosed), remote |-> <<>>]
       ELSE IF e.raised \/ answer = "bridge_down"
       THEN [result |-> Returned("False"), remote |-> <<>>]
       ELSE [result |-> Returned(IF answer = "written" THEN "True" ELSE "False"),
             remote |-> <<Upsert(<<e.java_row>>)>>]

\* write_rows(data_list).
WriteRowsCall(is_closed, data_list, answer) ==
    LET e == [i \in 1..Len(data_list) |-> EncodeRow(data_list[i])]
    IN IF _check_not_closed(is_closed)
       THEN [result |-> Raised(HasBeenClosed), remote |-> <<>>]
       ELSE IF answer = "bridge_down" \/ \E i \in 1..Len(data_list) : e[i].raised
       THEN [result |-> Returned(0), remote |-> <<>>]
       ELSE [result |-> Returned(IF answer = "written" THEN Len(data_list) ELSE 0),
             remote |-> <<Upsert([i \in 1..Len(data_list) |-> e[i].java_row])>>]

\* The dicts over the first n column names, in any order of insertion.
Injective(f) == \A i, j \in DOMAIN f : i # j => f[i] # f[j]
Dicts(n, values) ==
    UNION {{[i \in 1..k |-> <<ColumnNames[order[i]], vs[i]>>] :
              order \in {f \in [1..k -> 1..Len(ColumnNames)] : Injective(f)},
              vs \in [1..k -> values]} : k \in 0..n}
BatchValues == {PyValue("int", "1"), PyValue("bool", "True"), PyValue("str", "test1")}
BatchDicts ==
    {<<<<"key", v>>>> : v \in BatchValues}
      \cup {<<<<"key", PyValue("int", "1")>>, <<"value", PyValue("float", "2.5")>>>>}
Batches == UNION {[1..n -> BatchDicts] : n \in 0..MaxRows}

\* An open writer, a row or a list of rows to write, and the remote answer.
InitWrite ==
    /\ Quiet
    /\ \E answer \in UpsertOutcomes :
         \/ \E data \in Dicts(MaxColumns, PyValues) :
              last = Call("input", 0, [op |-> "write_row", data |-> data,
                                       answer |-> answer], None, <<>>, NoPid, {})
         \/ \E data_list \in Batches :
              last = Call("input", 0, [op |-> "write_rows", data |-> data_list,
                                       answer |-> answer], None, <<>>, NoPid, {})

WriteRow ==
    /\ last.op = "input"
    /\ last.arg.op = "write_row"
    /\ LET w == WriteRowCall(FALSE, last.arg.data, last.arg.answer)
       IN last' = Call("write_row", 0, last.arg.data, w.result, w.remote, NoPid, {})
    /\ UNCHANGED <<connVars, running, launched, closed, retryVars, otherVars>>

WriteRows ==
    /\ last.op = "input"
    /\ last.arg.op = "write_rows"
    /\ LET w == WriteRowsCall(FALSE, last.arg.data, last.arg.answer)
       IN last' = Call("write_rows", 0, last.arg.data, w.result, w.remote, NoPid, {})
    /\ UNCHANGED <<connVars, running, launched, closed, retryVars, otherVars>>

NextWrite == WriteRow \/ WriteRows
SpecWrite == InitWrite /\ [][NextWrite]_vars

\* ---------------------------------------------------------- Admin, creating
\* Admin.create_database(database_name, database_descriptor, if_not_exists):
\* createDatabase(database_name, descriptor, if_not_exists) under the
\* connection's retry; True, or the consolidated RuntimeError.
AdminCreateDatabase(c, database_name, if_not_exists, fates) ==
    /\ database_name \in DbNames
    /\ AdminCall(c, "Admin.create_database",
                 [db |-> database_name, if_not_exists |-> if_not_exists],
                 [call |-> "createDatabase", db |-> database_name, ignore |-> if_not_exists],
                 database_name \in store.dbs, fates)

NextCreate ==
    \E c \in Conns, db \in DbNames, e \in BOOLEAN,
       fates \in [1..DefaultRetries -> AttemptFates] :
         AdminCreateDatabase(c, db, e, fates)
SpecCreate == InitDrop /\ [][NextCreate]_vars

\* ------------------------------------------------------------------ reader
\* FlussDataReader.  The remote reader delivers Java records: one that
\* offers toDict() (a map from column to value), one that does not, or a
\* Java String, which the bridge hands over as a Python str.
JavaRecord(shape, items) == [shape |-> shape, items |-> items]
KeyRecord(v) == JavaRecord("toDict", <<<<"key", JavaValue("Long", v)>>>>)
Records ==
    {KeyRecord("1"), KeyRecord("2"), JavaRecord("toDict", <<>>),
     JavaRecord("opaque", <<<<"key", JavaValue("Long", "3")>>>>)}
MaxRecords == 3
Snapshots == UNION {[1..n -> Records] : n \in 0..MaxRecords}
Limits == {1, 2, 10}

\* What the bridge makes of a Java value: Long to int, Double to float,
\* String to str.
FromJava(cell) ==
    PyValue(CASE cell.java = "Long" -> "int" [] cell.java = "Double" -> "float"
              [] OTHER -> "str", cell.v)

\* _convert_java_result(java_result): hasattr(java_result, 'toDict') holds
\* of every Java object behind the bridge, so toDict() is called on it and
\* raises where the object has no such method; a str has neither toDict nor
\* toString and ends in the fallback.
_convert_java_result(java_result) ==
    IF java_result.shape = "text"
    THEN Returned(<<<<"raw_result", PyValue("str", "row")>>>>)
    ELSE IF java_result.shape = "toDict"
    THEN Returned([i \in 1..Len(java_result.items) |->
                     <<java_result.items[i][1], FromJava(java_result.items[i][2])>>])
    ELSE Raised("Py4JError")

\* readBatchData(limit) of the remote reader at a position of its snapshot.
Least(a, b) == IF a < b THEN a ELSE b
ReadBatchData(snapshot, position, limit) ==
    SubSeq(snapshot, position + 1, Least(position + limit, Len(snapshot)))
\* How the remote reader answers: it delivers, it raises, or the bridge to
\* it is down.
ReadOutcomes == {"delivers", "raises"}

\* read_row(): result, whether that is None, the remote calls and the
\* position of the remote reader afterwards.
ReadRowCall(is_closed, snapshot, position, answer) ==
    LET batch_data == ReadBatchData(snapshot, position, 1)
        call == <<R("readBatchData")>>
    IN IF _check_not_closed(is_closed)
       THEN [result |-> Raised(HasBeenClosed), none |-> FALSE, remote |-> <<>>,
             position |-> position]
       ELSE IF answer # "delivers"
       THEN [result |-> Returned(None), none |-> TRUE, remote |-> call,
             position |-> position]
       ELSE IF Len(batch_data) > 0
       THEN LET row == _convert_java_result(batch_data[1])
            IN IF row.raised # None
               THEN [result |-> Returned(None), none |-> TRUE, remote |-> call,
                     position |-> position + 1]
               ELSE [result |-> row, none |-> FALSE, remote |-> call,
                     position |-> position + 1]
       ELSE [result |-> Returned(None), none |-> TRUE, remote |-> call,
             position |-> position]

\* The rows read_rows keeps: "if row:" drops an empty dict.
RECURSIVE TruthyRows(_)
TruthyRows(rows) ==
    IF rows = <<>> THEN <<>>
    ELSE (IF Head(rows).value # <<>> THEN <<Head(rows).value>> ELSE <<>>)
           \o TruthyRows(Tail(rows))

\* read_rows(limit).
ReadRowsCall(is_closed, snapshot, position, limit, answer) ==
    LET batch_data == ReadBatchData(snapshot, position, limit)
        call == <<R("readBatchData")>>
        rows == [i \in 1..Len(batch_data) |-> _convert_java_result(batch_data[i])]
    IN IF _check_not_closed(is_closed)
       THEN [result |-> Raised(HasBeenClosed), remote |-> <<>>, position |-> position]
       ELSE IF answer # "delivers"
       THEN [result |-> Returned(<<>>), remote |-> call, position |-> position]
       ELSE IF \E i \in 1..Len(rows) : rows[i].raised # None
       THEN [result |-> Returned(<<>>), remote |-> call,
             position |-> position + Len(batch_data)]
       ELSE [result |-> Returned(TruthyRows(rows)), remote |-> call,
             position |-> position + Len(batch_data)]

\* The loop of read_all(): read_row() until it gives None.
RECURSIVE ReadAllLoop(_, _, _, _, _)
ReadAllLoop(snapshot, position, answer, rows, remote) ==
    LET r == ReadRowCall(FALSE, snapshot, position, answer)
    IN IF r.none
       THEN [result |-> Returned(rows), remote |-> remote \o r.remote,
             position |-> r.position]
       ELSE ReadAllLoop(snapshot, r.position, answer, Append(rows, r.result.value),
                        remote \o r.remote)
ReadAllCall(is_closed, snapshot, position, answer) ==
    IF _check_not_closed(is_closed)
    THEN [result |-> Raised(HasBeenClosed), remote |-> <<>>, position |-> position]
    ELSE ReadAllLoop(snapshot, position, answer, <<>>, <<>>)

\* __next__(): read_row(), StopIteration when it gives None.
NextCall(is_closed, snapshot, position, answer) ==
    LET r == ReadRowCall(is_closed, snapshot, position, answer)
    IN IF r.none
       THEN [result |-> Raised("StopIteration"), remote |-> r.remote,
             position |-> r.position]
       ELSE [result |-> r.result, remote |-> r.remote, position |-> r.position]

\* flush(): the check and nothing else.
FlushCall(is_closed) ==
    IF _check_not_closed(is_closed)
    THEN [result |-> Raised(HasBeenClosed), remote |-> <<>>]
    ELSE [result |-> Returned(None), remote |-> <<>>]

\* close() of a writer or a reader: the flag is set unless it is set.
CloseCall(is_closed) == IF ~is_closed THEN TRUE ELSE is_closed

\* ---------------------------------------------------- rows in the engine
\* The table of a path, the position of its key column, and the upsert of
\* rows into it: a row replaces the stored row of the same key.
TableOf(s, path) == CHOOSE t \in s.tables : t.db = path[1] /\ t.name = path[2]
KeyIndex(t) == CHOOSE i \in 1..Len(t.columns) : t.columns[i] = t.pk[1]
Accepts(s, path, rows) ==
    /\ HasTable(s, path[1], path[2])
    /\ \A i \in 1..Len(rows) : Len(rows[i]) = Len(TableOf(s, path).columns)
UpsertRow(rows, t, java_row) ==
    {r \in rows : ~(r.db = t.db /\ r.name = t.name /\ r.key = java_row[KeyIndex(t)])}
      \cup {[db |-> t.db, name |-> t.name, key |-> java_row[KeyIndex(t)], row |-> java_row]}
RECURSIVE UpsertAll(_, _, _)
UpsertAll(rows, t, list) ==
    IF list = <<>> THEN rows ELSE UpsertAll(UpsertRow(rows, t, Head(list)), t, Tail(list))
\* The store after the upserts among the remote calls of a write.
Written(s, path, remote, answer) ==
    IF remote # <<>> /\ answer = "written"
    THEN [s EXCEPT !.rows = UpsertAll(s.rows, TableOf(s, path), remote[1].rows)]
    ELSE s
\* The orders in which a scan of the table may deliver its rows, each as a
\* record with toDict().
RowsOf(s, path) == {r \in s.rows : r.db = path[1] /\ r.name = path[2]}
Scans(s, path) ==
    LET rs == RowsOf(s, path)
        t == TableOf(s, path)
    IN {[i \in 1..Cardinality(rs) |->
           JavaRecord("toDict", [k \in 1..Len(t.columns) |-> <<t.columns[k], f[i].row[k]>>])] :
          f \in {g \in [1..Cardinality(rs) -> rs] : Injective(g)}}

\* ----------------------------------------------------- writer and reader
\* Whether the bridge a handle holds still reaches its gateway process: the
\* process runs and the connection has not shut the gateway down.
BridgeUp(h) ==
    /\ handle[h].made
    /\ handle[h].session \in running
    /\ _gateway[handle[h].conn] # None
    /\ _java_process[handle[h].conn] = handle[h].session

\* How the remote side can answer a write or a read of a handle.
WriteAnswers(rows) ==
    IF ~BridgeUp("writer") THEN {"bridge_down"}
    ELSE IF ~Accepts(store, handle["writer"].table, rows) THEN {"raises"}
    ELSE UpsertOutcomes
ReadAnswers == IF ~BridgeUp("reader") THEN {"bridge_down"} ELSE ReadOutcomes

\* What a call on a handle reports: the handle and its fields before.
HandleCall(op, h, input, r) ==
    Call(op, handle[h].conn, [h |-> h, was |-> handle[h], input |-> input],
         r.result, r.remote, NoPid, {})
HandleFrame ==
    UNCHANGED <<connVars, running, launched, closed, retryVars, metaVars, sessVars,
                gwVars, exitVars>>

\* write_row(data) on the writer, the remote side answering with answer.
WriterWriteRowWith(data, answer) ==
    /\ handle["writer"].made
    /\ answer \in WriteAnswers(<<EncodeRow(data).java_row>>)
    /\ HandleFrame
    /\ LET w == WriteRowCall(handle["writer"]._is_closed, data, answer)
       IN /\ last' = HandleCall("write_row", "writer", data, w)
          /\ store' = Written(store, handle["writer"].table, w.remote, answer)
    /\ UNCHANGED handle

WriterWriteRow(data) ==
    \E answer \in UpsertOutcomes \cup {"bridge_down"} : WriterWriteRowWith(data, answer)

WriterWriteRows(data_list) ==
    /\ handle["writer"].made
    /\ HandleFrame
    /\ \E answer \in WriteAnswers([i \in 1..Len(data_list) |-> EncodeRow(data_list[i]).java_row]) :
         LET w == WriteRowsCall(handle["writer"]._is_closed, data_list, answer)
         IN /\ last' = HandleCall("write_rows", "writer", data_list, w)
            /\ store' = Written(store, handle["writer"].table, w.remote, answer)
    /\ UNCHANGED handle

WriterFlush ==
    /\ handle["writer"].made
    /\ HandleFrame
    /\ last' = HandleCall("flush", "writer", None, FlushCall(handle["writer"]._is_closed))
    /\ UNCHANGED <<store, handle>>

\* A method of the reader: r is what it does at the reader's position.
ReaderStep(op, input, r) ==
    /\ HandleFrame
    /\ last' = HandleCall(op, "reader", input, r)
    /\ handle' = [handle EXCEPT !["reader"].position = r.position]
    /\ UNCHANGED store

ReaderReadRow ==
    /\ handle["reader"].made
    /\ \E answer \in ReadAnswers :
         LET x == handle["reader"]
         IN ReaderStep("read_row", None,
                       ReadRowCall(x._is_closed, x.snapshot, x.position, answer))

\* read_rows(limit) on the reader, the remote side answering with answer.
ReaderReadRowsWith(limit, answer) ==
    /\ handle["reader"].made
    /\ answer \in ReadAnswers
    /\ LET x == handle["reader"]
       IN ReaderStep("read_rows", limit,
                     ReadRowsCall(x._is_closed, x.snapshot, x.position, limit, answer))

ReaderReadRows(limit) ==
    \E answer \in ReadOutcomes \cup {"bridge_down"} : ReaderReadRowsWith(limit, answer)

ReaderReadAll ==
    /\ handle["reader"].made
    /\ \E answer \in ReadAnswers :
         LET x == handle["reader"]
         IN ReaderStep("read_all", None,
                       ReadAllCall(x._is_closed, x.snapshot, x.position, answer))

ReaderNext ==
    /\ handle["reader"].made
    /\ \E answer \in ReadAnswers :
         LET x == handle["reader"]
         IN ReaderStep("__next__", None,
                       NextCall(x._is_closed, x.snapshot, x.position, answer))

\* close() of the writer or the reader.
HandleClose(h) ==
    /\ h \in {"writer", "reader"}
    /\ handle[h].made
    /\ HandleFrame
    /\ handle' = [handle EXCEPT ![h]._is_closed = CloseCall(handle[h]._is_closed)]
    /\ last' = HandleCall("close", h, None, [result |-> Returned(None), remote |-> <<>>])
    /\ UNCHANGED store

\* Connection 1 is connected, the engine holds tmp_db.test_table keyed by
\* its one column, and connection 1 has made a writer and a reader of it;
\* the reader delivers any short sequence of records.
TestPath == <<"tmp_db", "test_table">>
MadeHandle(snapshot) ==
    [made |-> TRUE, _is_closed |-> FALSE, conn |-> 1, session |-> 1,
     table |-> TestPath, snapshot |-> snapshot, position |-> 0]
InitFlag ==
    /\ _gateway = [c \in Conns |-> IF c = 1 THEN "gateway" ELSE None]
    /\ _java_process = [c \in Conns |-> IF c = 1 THEN 1 ELSE NoPid]
    /\ _java_app = [c \in Conns |-> IF c = 1 THEN "entry_point" ELSE None]
    /\ _java_connection = [c \in Conns |-> IF c = 1 THEN "connection" ELSE None]
    /\ _is_connected = [c \in Conns |-> c = 1]
    /\ running = {1}
    /\ launched = 1
    /\ closed = {}
    /\ last = Call("init", 0, None, None, <<>>, NoPid, {})
    /\ RetryIdle
    /\ MetaIdle /\ SessIdle /\ GatewayIdle
    /\ store = [dbs |-> {"tmp_db"},
                tables |-> {[db |-> "tmp_db", name |-> "test_table", pk |-> <<"key">>,
                             columns |-> <<"key">>]},
                rows |-> {}]
    /\ \E snapshot \in Snapshots :
         handle = [h \in Handles |->
                     IF h = "writer" THEN MadeHandle(<<>>)
                     ELSE IF h = "reader" THEN MadeHandle(snapshot) ELSE NoHandle]

FlagDicts == {<<<<"key", PyValue("int", "1")>>>>, <<<<"key", PyValue("bool", "True")>>>>}
NextFlag ==
    \/ \E h \in {"writer", "reader"} : HandleClose(h)
    \/ \E data \in FlagDicts : WriterWriteRow(data)
    \/ \E data \in FlagDicts : WriterWriteRows(<<data>>)
    \/ WriterFlush
    \/ ReaderReadRow
    \/ \E limit \in Limits : ReaderReadRows(limit)
    \/ ReaderReadAll
    \/ ReaderNext
SpecFlag == InitFlag /\ [][NextFlag]_vars

\* ------------------------------------------------------ FlussTableReadImpl
\* The batch views of a reader.  Each runs to its end in one step; the
\* reader is open and the remote reader delivers.

\* read_batch(batch_size), run to exhaustion from a position: read_rows
\* until a batch is empty; the batches yielded and the position reached.
RECURSIVE read_batch(_, _, _, _)
read_batch(snapshot, position, batch_size, batches) ==
    LET batch == ReadRowsCall(FALSE, snapshot, position, batch_size, "delivers")
    IN IF batch.result.value = <<>>
       THEN [batches |-> batches, position |-> batch.position]
       ELSE read_batch(snapshot, batch.position, batch_size,
                       Append(batches, batch.result.value))

\* next(self.read_batch(1), []): the first batch of a fresh read_batch(1),
\* or the empty list.
FirstBatch(snapshot, position) ==
    LET batch == ReadRowsCall(FALSE, snapshot, position, 1, "delivers")
    IN [records |-> batch.result.value, position |-> batch.position]

\* pa.RecordBatch.from_pandas(pd.DataFrame(batch_records)): the columns of
\* the records and the records as rows.
RecordBatch(batch_records) ==
    [columns |-> {batch_records[i][k][1] :
                    i \in DOMAIN batch_records, k \in 1..Len(batch_records[1])},
     rows |-> batch_records]

\* to_arrow_batch_reader(batch_size) and the batches its RecordBatchReader
\* yields when it is read to the end.
to_arrow_batch_reader(snapshot, position, batch_size) ==
    LET first == FirstBatch(snapshot, position)
        rest == read_batch(snapshot, first.position, batch_size, <<>>)
    IN [schema |-> IF first.records = <<>> THEN {} ELSE RecordBatch(first.records).columns,
        batches |-> [i \in DOMAIN rest.batches |-> RecordBatch(rest.batches[i]).rows],
        position |-> rest.position]

\* to_record_generator(): the records of read_batch() with the default
\* batch size, one by one.
DefaultBatchSize == 1000
RECURSIVE Flatten(_)
Flatten(batches) ==
    IF batches = <<>> THEN <<>> ELSE Head(batches) \o Flatten(Tail(batches))
to_record_generator(snapshot, position) ==
    Flatten(read_batch(snapshot, position, DefaultBatchSize, <<>>).batches)

\* The records of a table with one key column, as the remote reader
\* delivers them, and the batch sizes tried.
KeyedRecords == {KeyRecord("1"), KeyRecord("2"), KeyRecord("3")}
KeyedSnapshots == UNION {[1..n -> KeyedRecords] : n \in 0..MaxRecords}
InitBatch ==
    /\ Quiet
    /\ \E snapshot \in KeyedSnapshots, batch_size \in Limits :
         last = Call("input", 0, [snapshot |-> snapshot, batch_size |-> batch_size],
                     None, <<>>, NoPid, {})

ToArrowBatchReader ==
    /\ last.op = "input"
    /\ Observe("to_arrow_batch_reader", last.arg,
               Flatten(to_arrow_batch_reader(last.arg.snapshot, 0,
                                             last.arg.batch_size).batches))
ReadBatch ==
    /\ last.op = "input"
    /\ Observe("read_batch", last.arg,
               Flatten(read_batch(last.arg.snapshot, 0, last.arg.batch_size, <<>>).batches))
ToRecordGenerator ==
    /\ last.op = "input"
    /\ Observe("to_record_generator", last.arg, to_record_generator(last.arg.snapshot, 0))

NextBatch == ToArrowBatchReader \/ ReadBatch \/ ToRecordGenerator
SpecBatch == InitBatch /\ [][NextBatch]_vars

\* ------------------------------------------------- handles of a connection
\* getAdmin(), create_writer(table_path) and create_reader(table_path) on
\* connection c: _ensure_connected (not in getAdmin), _get_connection, the
\* remote lookup, and the new object, which keeps the connection's gateway.
NewHandle(c, path, snapshot) ==
    [made |-> TRUE, _is_closed |-> FALSE, conn |-> c, session |-> _java_process[c],
     table |-> path, snapshot |-> snapshot, position |-> 0]

\* What obtaining handle h from connection c gives, with the snapshot the
\* remote reader takes: the exception raised or None, the remote calls, the
\* connection's fields and the handle afterwards.
ObtainCall(c, h, snapshot) ==
    LET f == Fields(c)
        g == GetConnection(f, TRUE)
        lookup == IF h = "admin" THEN <<R("getAdmin")>> ELSE <<R("getTable")>>
        make == CASE h = "writer" -> <<R("createDataWriter")>>
                  [] h = "reader" -> <<R("createScanReader")>>
                  [] OTHER -> <<>>
    IN IF h # "admin" /\ EnsureConnectedRaises(f)
       THEN [raised |-> "ConnectionError", remote |-> <<>>, fields |-> f, made |-> FALSE]
       ELSE IF f.java_connection = None /\ f.java_app = None
       THEN [raised |-> "AttributeError", remote |-> <<>>, fields |-> f, made |-> FALSE]
       ELSE IF f.java_process \notin running
       THEN [raised |-> "Py4JNetworkError", remote |-> <<>>, fields |-> f, made |-> FALSE]
       ELSE IF h # "admin" /\ ~HasTable(store, TestPath[1], TestPath[2])
       THEN [raised |-> "Py4JJavaError", remote |-> g.remote \o lookup,
             fields |-> g.fields, made |-> FALSE]
       ELSE [raised |-> None, remote |-> g.remote \o lookup \o make,
             fields |-> g.fields, made |-> TRUE]

Obtain(c, h) ==
    /\ h \in Handles
    /\ \E snapshot \in IF h = "reader" /\ HasTable(store, TestPath[1], TestPath[2])
                       THEN Scans(store, TestPath) ELSE {<<>>} :
         LET o == ObtainCall(c, h, snapshot)
         IN /\ SetFields(c, o.fields)
            /\ handle' = IF o.made
                         THEN [handle EXCEPT ![h] = NewHandle(c, IF h = "admin" THEN <<>>
                                                                 ELSE TestPath, snapshot)]
                         ELSE handle
            /\ last' = Call(CASE h = "admin" -> "getAdmin" [] h = "writer" -> "create_writer"
                              [] OTHER -> "create_reader",
                            c, h, Raised(o.raised), o.remote, NoPid, {})
    /\ UNCHANGED <<running, launched, closed, retryVars, metaVars, sessVars, gwVars,
                   exitVars, store>>

\* The retry loop over a bridge that is down: operation_func raises in
\* every attempt.
RECURSIVE DownRun(_, _)
DownRun(a, m) ==
    IF ~LoopRuns(a, m) THEN [raised |-> TRUE, calls |-> a]
    ELSE IF TryAttempt("operation_raises", a + 1).raised THEN DownRun(a + 1, m)
    ELSE [raised |-> FALSE, calls |-> a + 1]

\* Admin.list_databases() on the Admin handle: listDatabases under the
\* connection's retry, whatever the state of the connection.
AdminListDatabases ==
    /\ handle["admin"].made
    /\ HandleFrame
    /\ UNCHANGED <<store, handle>>
    /\ LET req == [call |-> "listDatabases"]
           up == RetryRun(store, req, Answered, 0, DefaultRetries)
           down == DownRun(0, DefaultRetries)
       IN last' = HandleCall("Admin.list_databases", "admin", None,
                    IF BridgeUp("admin")
                    THEN [result |-> Returned(up.value), remote |-> Attempts(req, up.calls)]
                    ELSE [result |-> Raised("RuntimeError"),
                          remote |-> Attempts(req, down.calls)])

\* Connection 1 is connected, the engine holds tmp_db.test_table with one
\* row, and no handle has been made.
InitHandle ==
    /\ _gateway = [c \in Conns |-> IF c = 1 THEN "gateway" ELSE None]
    /\ _java_process = [c \in Conns |-> IF c = 1 THEN 1 ELSE NoPid]
    /\ _java_app = [c \in Conns |-> IF c = 1 THEN "entry_point" ELSE None]
    /\ _java_connection = [c \in Conns |-> IF c = 1 THEN "connection" ELSE None]
    /\ _is_connected = [c \in Conns |-> c = 1]
    /\ running = {1}
    /\ launched = 1
    /\ closed = {}
    /\ last = Call("init", 0, None, None, <<>>, NoPid, {})
    /\ RetryIdle
    /\ MetaIdle /\ SessIdle /\ GatewayIdle
    /\ store = [dbs |-> {"tmp_db"},
                tables |-> {[db |-> "tmp_db", name |-> "test_table", pk |-> <<"key">>,
                             columns |-> <<"key">>]},
                rows |-> {[db |-> "tmp_db", name |-> "test_table",
                           key |-> JavaValue("Long", "1"),
                           row |-> <<JavaValue("Long", "1")>>]}]
    /\ handle = [h \in Handles |-> NoHandle]

NextHandle ==
    \/ \E c \in Conns, h \in Handles : Obtain(c, h)
    \/ \E c \in Conns : Close(c)
    \/ AdminListDatabases
    \/ \E data \in FlagDicts : WriterWriteRow(data)
    \/ \E limit \in Limits : ReaderReadRows(limit)
    \/ \E h \in {"writer", "reader"} : HandleClose(h)
SpecHandle == InitHandle /\ [][NextHandle]_vars

\* ------------------------------------ administrative operations, connected
\* FlussConnection.create_database(database_name, database_descriptor,
\* if_not_exists): a descriptor that is no DatabaseDescriptor raises
\* ValueError inside the try block, after getAdmin and before any request.
Descriptors == {"None", "DatabaseDescriptor", "dict"}
ConnCreateDatabase(c, database_name, database_descriptor, if_not_exists, fates) ==
    LET req == [call |-> "createDatabase", db |-> database_name, ignore |-> if_not_exists]
        given == [descriptor |-> database_descriptor, if_not_exists |-> if_not_exists]
    IN /\ database_name \in DbNames
       /\ IF database_descriptor = "dict" /\ ~EnsureConnectedRaises(Fields(c))
          THEN LET g == GetConnection(Fields(c), TRUE)
               IN /\ SetFields(c, g.fields)
                  /\ last' = Call("create_database", c,
                                  CallArg(given, req, database_name \in store.dbs, fates, TRUE),
                                  Failure("create_database"),
                                  g.remote \o <<R("getAdmin")>>, NoPid, {})
                  /\ UNCHANGED <<running, launched, closed, retryVars, otherVars>>
          ELSE ConnectionCall(c, "create_database", given, req,
                              database_name \in store.dbs, fates)

\* FlussConnection.create_table(database_name, table_name, schema,
\* if_not_exists) with the schema of one key column and one value column.
\* A Schema object is its fields, each a name and the text of its Arrow
\* type, and its primary keys.
KeyValueSchema ==
    [fields |-> <<<<"key", lower(N_INT64)>>, <<"value", lower(N_STRING)>>>>,
     primary_keys |-> <<"key">>]
\* create_table with a Schema object: the columns with the types the
\* mapping gives for the upper-cased type texts, the primary keys, and the
\* createTable request under retry.
CreateTableFromSchema(c, database_name, table_name, schema, if_not_exists, fates) ==
    ConnectionCall(c, "create_table", [if_not_exists |-> if_not_exists],
                   [call |-> "createTable", db |-> database_name, name |-> table_name,
                    pk |-> schema.primary_keys,
                    columns |-> [i \in 1..Len(schema.fields) |-> schema.fields[i][1]],
                    types |-> [i \in 1..Len(schema.fields) |->
                                 _map_type_to_fluss_datatype(upper(schema.fields[i][2]))],
                    ignore |-> if_not_exists],
                   HasTable(store, database_name, table_name), fates)
ConnCreateTable(c, database_name, table_name, if_not_exists, fates) ==
    /\ database_name \in DbNames
    /\ CreateTableFromSchema(c, database_name, table_name, KeyValueSchema,
                             if_not_exists, fates)

\* FlussConnection.list_databases() and list_tables(database_name).
ConnListDatabases(c, fates) ==
    /\ fates \in [1..DefaultRetries -> AttemptFates]
    /\ ConnectionCall(c, "list_databases", None, [call |-> "listDatabases"], TRUE, fates)
ConnListTables(c, database_name, fates) ==
    /\ database_name \in DbNames
    /\ ConnectionCall(c, "list_tables", database_name,
                      [call |-> "listTables", db |-> database_name],
                      database_name \in store.dbs, fates)

\* FlussConnection.get_table_schema(database_name, table_name): getTable
\* and getTableInfo, without retry; None when either raises.
ConnGetTableSchema(c, database_name, table_name) ==
    LET req == [call |-> "getTable", db |-> database_name, name |-> table_name]
        found == HasTable(store, database_name, table_name)
        arg == [given |-> None, sent |-> req, existed |-> found, fates |-> Answered,
                answer |-> found, invalid |-> FALSE]
    IN /\ database_name \in DbNames
       /\ UNCHANGED <<running, launched, closed, retryVars, otherVars>>
       /\ IF EnsureConnectedRaises(Fields(c))
          THEN /\ UNCHANGED connVars
               /\ last' = Call("get_table_schema", c, arg, "ConnectionError", <<>>, NoPid, {})
          ELSE LET g == GetConnection(Fields(c), TRUE)
               IN /\ SetFields(c, g.fields)
                  /\ last' = Call("get_table_schema", c, arg,
                                  IF found THEN Success("get_table_schema")
                                  ELSE Failure("get_table_schema"),
                                  g.remote \o <<R("getTable")>>
                                    \o (IF found THEN <<R("getTableInfo")>> ELSE <<>>),
                                  NoPid, {})

\* One operation on any of the stores.
NextAdmin ==
    \/ \E c \in Conns, db \in DbNames, d \in Descriptors, e \in BOOLEAN,
          fates \in [1..DefaultRetries -> AttemptFates] :
         last.op = "init" /\ ConnCreateDatabase(c, db, d, e, fates)
    \/ \E c \in Conns, db \in DbNames, t \in TableNames, e \in BOOLEAN,
          fates \in [1..DefaultRetries -> AttemptFates] :
         last.op = "init" /\ ConnCreateTable(c, db, t, e, fates)
    \/ \E c \in Conns, fates \in [1..DefaultRetries -> AttemptFates] :
         last.op = "init" /\ ConnListDatabases(c, fates)
    \/ \E c \in Conns, db \in DbNames, fates \in [1..DefaultRetries -> AttemptFates] :
         last.op = "init" /\ ConnListTables(c, db, fates)
    \/ \E c \in Conns, db \in DbNames, t \in TableNames :
         last.op = "init" /\ ConnGetTableSchema(c, db, t)
    \/ \E c \in Conns, db \in DbNames, e \in BOOLEAN :
         last.op = "init" /\ DropDatabase(c, db, e)
    \/ \E c \in Conns, db \in DbNames, t \in TableNames, e \in BOOLEAN :
         last.op = "init" /\ DropTable(c, db, t, e)
SpecAdmin == InitDrop /\ [][NextAdmin]_vars

\* ------------------------------------------------------------- the_test.py
\* The script of the_test.py on connection 1, a step at a time, against an
\* engine that answers every request: each step follows the one before.
TestSchema ==
    [fields |-> <<<<"date", lower(N_STRING)>>, <<"hour", lower(N_STRING)>>,
                  <<"key", lower(N_INT64)>>, <<"value", lower(N_STRING)>>>>,
     primary_keys |-> <<"key">>]
TestRow(hour, key, value) ==
    <<<<"date", PyValue("str", "2023-10-01")>>, <<"hour", PyValue("str", hour)>>,
      <<"key", PyValue("int", key)>>, <<"value", PyValue("str", value)>>>>
TestData == <<TestRow("12", "1", "test1"), TestRow("13", "2", "test2"),
              TestRow("14", "3", "test-3")>>
TestLimit == 10

\* The engine before the script: any store without tmp_db.test_table.
InitScript ==
    /\ _gateway = [c \in Conns |-> IF c = 1 THEN "gateway" ELSE None]
    /\ _java_process = [c \in Conns |-> IF c = 1 THEN 1 ELSE NoPid]
    /\ _java_app = [c \in Conns |-> IF c = 1 THEN "entry_point" ELSE None]
    /\ _java_connection = [c \in Conns |-> IF c = 1 THEN "connection" ELSE None]
    /\ _is_connected = [c \in Conns |-> c = 1]
    /\ running = {1}
    /\ launched = 1
    /\ closed = {}
    /\ last = Call("init", 0, None, None, <<>>, NoPid, {})
    /\ RetryIdle
    /\ MetaIdle /\ SessIdle /\ GatewayIdle
    /\ store \in {s \in Stores : ~HasTable(s, TestPath[1], TestPath[2])}
    /\ handle = [h \in Handles |-> NoHandle]

NextScript ==
    \/ last.op = "init" /\ Obtain(1, "admin")
    \/ last.op = "getAdmin" /\ AdminCreateDatabase(1, TestPath[1], TRUE, Answered)
    \/ /\ last.op = "Admin.create_database"
       /\ CreateTableFromSchema(1, TestPath[1], TestPath[2], TestSchema, TRUE, Answered)
    \/ last.op \in {"create_table", "drop_database"} /\ ConnListTables(1, TestPath[1], Answered)
    \/ /\ last.op = "list_tables" /\ ~handle["writer"].made
       /\ ConnGetTableSchema(1, TestPath[1], TestPath[2])
    \/ last.op = "get_table_schema" /\ Obtain(1, "writer")
    \/ \E k \in 1..Len(TestData) :
         /\ IF k = 1 THEN last.op = "create_writer"
            ELSE last.op = "write_row" /\ last.arg.input = TestData[k - 1]
         /\ WriterWriteRowWith(TestData[k], "written")
    \/ /\ last.op = "write_row" /\ last.arg.input = TestData[Len(TestData)]
       /\ HandleClose("writer")
    \/ last.op = "close" /\ last.arg.h = "writer" /\ Obtain(1, "reader")
    \/ last.op = "create_reader" /\ ReaderReadRowsWith(TestLimit, "delivers")
    \/ last.op = "read_rows" /\ HandleClose("reader")
    \/ /\ last.op = "close" /\ last.arg.h = "reader"
       /\ DropTable(1, TestPath[1], TestPath[2], TRUE)
    \/ last.op = "drop_table" /\ DropDatabase(1, TestPath[1], TRUE)
SpecScript == InitScript /\ [][NextScript]_vars

\* ===================================================================== claims
AllOps == PlainOps \cup AdminOps \cup PathOps

\* ------------------------------------------------------------------------ C1
\* C1: when connect() raises ConnectionError after it launched the gateway
\* process, the partial state is torn down: the launched process is no longer
\* running and the connection holds no process handle, no bridge handle and
\* no cached Java connection.
Claim_C1 ==
    (/\ last.op = "connect" /\ last.result = "ConnectionError"
     /\ last.arg \in {"bridge_fails", "createConnection_fails", "probe_fails"})
    => /\ last.started # NoPid
       /\ last.started \notin running
       /\ _java_process[last.obj] = NoPid
       /\ _gateway[last.obj] = None
       /\ _java_connection[last.obj] = None

\* ------------------------------------------------------------------------ C2
\* C2: close() is idempotent and never raises: a close() that follows a
\* close() of the same connection returns and changes nothing, whatever the
\* teardown steps do.
Claim_C2 ==
    [][\A c \in Conns :
         (last.op = "close" /\ last.obj = c /\ last'.op = "close" /\ last'.obj = c)
         => /\ last'.result = "returned"
            /\ _gateway'[c] = _gateway[c]
            /\ _java_process'[c] = _java_process[c]
            /\ _java_app'[c] = _java_app[c]
            /\ _java_connection'[c] = _java_connection[c]
            /\ _is_connected'[c] = _is_connected[c]
            /\ running' = running]_vars

\* ------------------------------------------------------------------------ C3
\* C3: when close() is called on a connected connection and closing the Java
\* connection or shutting down the bridge raises, close() still ends the
\* gateway process and leaves the connection not connected.
Claim_C3 ==
    [][\A c \in Conns :
         (/\ is_connected(c)
          /\ last'.op = "close" /\ last'.obj = c
          /\ last'.arg \cap {"_java_connection.close", "_gateway.shutdown"} # {})
         => /\ _java_process[c] \notin running'
            /\ ~is_connected(c)']_vars

\* ------------------------------------------------------------------------ C4
\* C4: an operation called on a connection right after close() returned on it
\* fails with the not-connected error and issues no remote call.
Claim_C4 ==
    [][\A c \in Conns :
         (last.op = "close" /\ last.obj = c /\ last'.obj = c /\ last'.op \in AllOps)
         => /\ last'.result = "ConnectionError"
            /\ last'.remote = <<>>]_vars

Thm_C6 ==
    [][\A c \in Conns :
         (is_connected(c) /\ last'.op = "connect" /\ last'.obj = c)
         => /\ last'.result = "self"
            /\ last'.started = NoPid
            /\ last'.signalled = {}
            /\ last'.remote = <<>>
            /\ launched' = launched
            /\ running' = running
            /\ _gateway'[c] = _gateway[c]
            /\ _java_process'[c] = _java_process[c]
            /\ _java_app'[c] = _java_app[c]
            /\ _java_connection'[c] = _java_connection[c]
            /\ _is_connected'[c] = _is_connected[c]]_vars

\* connect() has just returned on a connection that was connected already,
\* while another process could still have been launched.
Wit_C6 ==
    /\ last.op = "connect" /\ last.before /\ last.result = "self"
    /\ is_connected(last.obj)
    /\ launched < MaxProcs

\* ------------------------------------------------------------------------ C7
\* C7: for max_retries >= 1, when every attempt fails the wrapper has invoked
\* the operation exactly max_retries times when it raises, and it raises one
\* RuntimeError whose message ends with the text of the exception of the last
\* attempt.
Thm_C7 ==
    (retry_pc = "raised" /\ max_retries >= 1)
    => /\ invoked = max_retries
       /\ Len(history) = max_retries
       /\ outcome.kind = "RuntimeError"
       /\ outcome.msg =
            <<"Async operation failed after", ToString(max_retries),
              "attempts. Last error:">> \o history[max_retries].caught.msg

\* Three attempts failed in three different ways and the error was raised.
Wit_C7 ==
    /\ retry_pc = "raised" /\ max_retries = 3 /\ invoked = 3
    /\ history[1].met = "operation_raises"
    /\ history[2].met = "get_times_out"
    /\ history[3].met = "get_remote_failure"

\* ------------------------------------------------------------------------ C8
\* C8: the k-th failed attempt is followed by a sleep of k seconds when
\* k < max_retries and by no sleep when k = max_retries; an attempt that
\* succeeds ends the call with that attempt's result, after exactly as many
\* invocations as there were failures plus one.
Min(a, b) == IF a < b THEN a ELSE b
Claim_C9 ==
    (/\ retry_pc = "raised" /\ max_retries >= 1
     /\ \A k \in 1..Len(history) : history[k].met = "get_times_out")
    => outcome.kind = "TimeoutError"

\* C9 as amended: the attempt that timed out fails with TimeoutError inside
\* the wrapper and the attempt that met a remote failure with RuntimeError,
\* but the wrapper raises RuntimeError in both cases; the timeout remains
\* visible to the caller only as the text "Operation timed out after 30
\* seconds" at the end of the message.
Thm_C9 ==
    /\ \A k \in 1..Len(history) :
         /\ history[k].met = "get_times_out"
            => history[k].caught =
                 Exc("TimeoutError",
                     <<"Operation timed out after", ToString(DefaultTimeout), "seconds">>)
         /\ history[k].met = "get_remote_failure"
            => history[k].caught.kind = "RuntimeError"
    /\ retry_pc = "raised"
       => /\ outcome.kind = "RuntimeError"
          /\ max_retries >= 1
             => outcome.msg =
                  <<"Async operation failed after", ToString(max_retries),
                    "attempts. Last error:">> \o last_exception.msg

\* Every one of two attempts timed out and the error was raised.
Wit_C9 ==
    /\ retry_pc = "raised" /\ max_retries = 2
    /\ \A k \in 1..2 : history[k].met = "get_times_out"

\* ----------------------------------------------------------------------- C10
\* The positions of the dots of a path.
Dots(table_path) == {i \in 1..Len(table_path) : table_path[i] = "."}
\* The getTable calls among the remote calls of the last call.
GetTables == {i \in 1..Len(last.remote) : last.remote[i][1] = "getTable"}

Reaches ==
    \/ Cardinality(GetTables) = 1 /\ last.result \in {"writer", "reader", "RemoteError"}
    \/ last.remote = <<R("createConnection")>> /\ last.result = "RemoteError"

Thm_C11 ==
    last.op \in ListOps =>
        LET a == last.arg
            all == [i \in 1..Len(a.coll) |-> ToString(a.coll[i])]
        IN /\ ~last.result.raised
           /\ last.result.result = IF a.wf = Never(a.coll) THEN all
                                   ELSE IF a.df = Never(a.coll) THEN all ELSE <<>>

\* A walk that raised after appending an element, followed by a direct
\* iteration that succeeded, and by one that raised.
Wit_C11 ==
    /\ last.op \in ListOps
    /\ last.arg.wf \in 1..Len(last.arg.coll)
    /\ last.arg.df = Never(last.arg.coll)
    /\ Len(last.result.result) = 2

\* ----------------------------------------------------------------------- C12
\* C12: a schema created with create_table and read back with
\* get_table_schema has the same field names in the same order and exactly
\* the same primary keys.
Claim_C12 ==
    (last.op = "get_table_schema" /\ ~last.result.none)
    => /\ last.result.dict.columns = last.arg.names
       /\ Range(last.result.dict.primary_keys) = Range(last.arg.primary_keys)

\* ----------------------------------------------------------------------- C13
\* C13: _java_type_to_arrow_type maps every type whose string form contains
\* "bigint" to int64, maps to int32 only types that contain "int" but not
\* "bigint", and maps the other types by the remaining substrings, string
\* being the default.
Claim_C13 ==
    last.op = "_java_type_to_arrow_type" =>
        LET t == lower(last.arg)
        IN /\ In(W_bigint, t) => last.result = "int64"
           /\ last.result = "int32" => (In(W_int, t) /\ ~In(W_bigint, t))
           /\ ~In(W_int, t) =>
                last.result =
                    IF In(W_string, t) \/ In(W_varchar, t) THEN "string"
                    ELSE IF In(W_double, t) THEN "float64"
                    ELSE IF In(W_float, t) THEN "float32"
                    ELSE IF In(W_boolean, t) THEN "bool"
                    ELSE IF In(W_timestamp, t) THEN "timestamp[us]"
                    ELSE IF In(W_date, t) THEN "date32"
                    ELSE IF In(W_decimal, t) THEN "decimal128(38, 18)"
                    ELSE IF In(W_bytes, t) \/ In(W_binary, t) THEN "binary"
                    ELSE "string"

\* ----------------------------------------------------------------------- C14
\* C14: for every ArrowSchema s and every list pks of field names of s,
\* s.with_primary_keys(pks).get_primary_keys() is exactly pks, and s itself
\* is left as it was.
Claim_C14 ==
    (last.op = "with_primary_keys" /\ ~last.result.raised)
    => /\ get_primary_keys(last.result.value) = [none |-> FALSE, list |-> last.arg.param]
       /\ last.result.self = last.arg.self

\* ----------------------------------------------------------------------- C15
\* C15: every name get_primary_keys() returns for an ArrowSchema obtained
\* from from_arrow_schema, create_schema_from_dict, with_primary_keys and
\* select is one of its get_field_names().
Claim_C15 ==
    last.op \in ArrowOps =>
        Range(get_primary_keys(Current).list) \subseteq Range(get_field_names(Current))

\* ----------------------------------------------------------------------- C16
\* C16: the comment and the custom_properties of a DatabaseDescriptor read
\* the same at every later time as when it was made.
Claim_C16 ==
    \A i \in 1..Len(descriptors) :
        /\ comment(i) = descriptors[i].made.comment
        /\ custom_properties(i) = descriptors[i].made.custom_properties

\* C17: after any sequence of pyfluss.connect() and pyfluss.disconnect()
\* calls, at most one connection made by connect() is connected; after
\* disconnect() the connection that was the default one is closed and
\* get_connection() returns None.
Claim_C17 ==
    /\ Cardinality({c \in 1..constructed : is_connected(c)}) <= 1
    /\ last.op = "pyfluss.disconnect"
         => /\ _global_connection = NoConn
            /\ last.obj # NoConn => ~is_connected(last.obj)

\* C18: a max-workers option that is 0 or negative is rejected with an error
\* by Catalog.create and by a read built from the catalog before
\* get_gateway() is called, a gateway process is launched or a remote call
\* is issued.
Claim_C18 ==
    (/\ last.op \in {"Catalog.create", "new_read"}
     /\ last.arg.max_workers.set
     /\ last.arg.max_workers.value <= 0)
    => /\ last.result = "ValueError"
       /\ last.arg.get_gateway = 0
       /\ last.started = NoPid
       /\ last.remote = <<>>

\* C19: once the Python process is gone, after a normal exit or after
\* SIGTERM or SIGINT, no gateway process launched by get_gateway() or by
\* FlussConnection.connect() is still running.
Claim_C19 ==
    python = "gone" => running = {} /\ servers = {}

\* C20: a teardown (FlussConnection.close, called directly or at exit, and
\* _cleanup_gateway, run at exit or by the signal handler) that sent the
\* termination signal to a gateway process leaves that process ended, by a
\* forced kill when it did not exit within the wait, and leaves the process
\* handle cleared.
Claim_C20 ==
    (last.op \in {"close", "atexit", "signal"} /\ last.signalled # {})
    => /\ last.signalled \cap (running \cup servers) = {}
       /\ last.obj = NoConn => _gateway_proc = NoPid
       /\ last.obj # NoConn => _java_process[last.obj] = NoPid

\* C22: drop_database and drop_table, on FlussConnection and on Admin, send
\* the remote drop with ignore-if-not-exists equal to if_exists, so that
\* dropping a target that does not exist succeeds exactly when if_exists.
Claim_C22 ==
    (/\ last.op \in {"drop_database", "drop_table", "Admin.drop_database",
                     "Admin.drop_table"}
     /\ last.before)
    => /\ last.arg.sent.ignore = last.arg.given.if_exists
       /\ ~last.arg.existed => (last.result = "True" <=> last.arg.given.if_exists)

ClaimedCell(value, cell) ==
    /\ cell.v = value.v
    /\ value.py = "int" => cell.java = "Long"
    /\ value.py = "float" => cell.java = "Double"
    /\ value.py \in {"str", "NoneType"} => cell.java = "String"
    /\ value.py = "bool" => cell.java \in {"Long", "String"}
ClaimedRow(data, java_row) ==
    /\ Len(java_row) = Len(data)
    /\ \A i \in 1..Len(data) : ClaimedCell(data[i][2], java_row[i])
Claim_C24 ==
    /\ last.op = "write_row" =>
         /\ Len(last.remote) = 1
         /\ Len(last.remote[1].rows) = 1
         /\ ClaimedRow(last.arg, last.remote[1].rows[1])
    /\ last.op = "write_rows" =>
         /\ Len(last.remote) = 1
         /\ Len(last.remote[1].rows) = Len(last.arg)
         /\ \A i \in 1..Len(last.arg) : ClaimedRow(last.arg[i], last.remote[1].rows[i])

\* C25: connections do not interfere: a call on one connection never ends
\* the gateway process of another connection that is connected and whose
\* process is running, so a connected connection's process stays running.
Claim_C25 ==
    [][\A a \in Conns :
         (is_connected(a) /\ _java_process[a] \in running /\ last'.obj # a)
           => _java_process[a] \in running']_vars

\* C26: Admin.create_database(name, if_not_exists = False) on a database
\* that does not exist raises only if the call did not create the database,
\* and returns True only if the database exists afterwards.
Claim_C26 ==
    (/\ last.op = "Admin.create_database"
     /\ ~last.arg.given.if_not_exists
     /\ ~last.arg.existed)
    => /\ last.result = "RuntimeError" => last.arg.given.db \notin store.dbs
       /\ last.result = "True" => last.arg.given.db \in store.dbs

\* C30: close() of a writer or reader never raises, leaves the flag set and
\* changes nothing when it was set; once the flag is set, every write_row,
\* write_rows, flush, read_row, read_rows, read_all and iteration step
\* raises the 'has been closed' RuntimeError and makes no remote call; while
\* it is not set, none of them raises that error.
HandleOps == {"write_row", "write_rows", "flush", "read_row", "read_rows", "read_all",
              "__next__"}
Thm_C30 ==
    /\ last.op \in HandleOps =>
         IF last.arg.was._is_closed
         THEN /\ last.result.raised = HasBeenClosed
              /\ last.remote = <<>>
              /\ handle[last.arg.h] = last.arg.was
         ELSE last.result.raised # HasBeenClosed
    /\ (last.op = "close" /\ last.arg.h \in {"writer", "reader"}) =>
         /\ last.result.raised = None
         /\ handle[last.arg.h]._is_closed
         /\ last.arg.was._is_closed => handle[last.arg.h] = last.arg.was

\* The reader was closed after it had delivered a record, and the next
\* iteration step raised.
Wit_C30 ==
    /\ last.op = "__next__"
    /\ last.arg.was._is_closed
    /\ last.arg.was.position > 0
    /\ last.result.raised = HasBeenClosed

\* C29: over a reader that delivers a finite sequence of records and then
\* empty batches, the batches of to_arrow_batch_reader(batch_size), of
\* read_batch(batch_size) and of to_record_generator() hold every record of
\* the sequence exactly once and in order.
Claim_C29 ==
    last.op \in {"to_arrow_batch_reader", "read_batch", "to_record_generator"} =>
      last.result = [i \in 1..Len(last.arg.snapshot) |->
                       _convert_java_result(last.arg.snapshot[i]).value]

\* C27: once a connection has been closed, an operation on an Admin, a
\* writer or a reader obtained from it before fails with an error and
\* issues no remote call, so no retry either.
Claim_C27 ==
    (/\ last.op \in {"Admin.list_databases", "write_row", "read_rows"}
     /\ last.arg.was.conn \in closed
     /\ ~last.before)
    => /\ last.result.raised # None
       /\ last.remote = <<>>

KeyOfDict(d) == d[CHOOSE i \in 1..Len(d) : d[i][1] = "key"][2]
====
